---- MODULE Spec2Model ----
(***************************************************************************)
(* Model of the quantitative core of xunxing-intelligence:                 *)
(*   - the pullback ("second wave") pattern scan of pages/5_Pullback.py,   *)
(*   - the universe filter of quant_stock_screener (utils/data_fetcher.py).*)
(*                                                                         *)
(* Numbers.  Prices are integers in tenths of a currency unit (1225 is     *)
(* 122.5), volumes are integers, percentages of the snapshot are integers  *)
(* in hundredths of a percent (980 is 9.80).  The code computes with       *)
(* binary floating point; every comparison of the code is modelled by the  *)
(* exact comparison of the rationals it approximates (cross-multiplied,    *)
(* all denominators being positive), and every rounding for display by a   *)
(* rounding to nearest whose result at an exact tie is either neighbour.   *)
(***************************************************************************)
EXTENDS Integers, Sequences, FiniteSets, TLC

VARIABLES
    \* ---- pages/5_Pullback.py ----
    total_candidates,   \* len(df_universe)
    surge_threshold,    \* slider, percent
    vol_shrink,         \* slider, percent
    i,                  \* enumerate cursor of the scan loop (0-based)
    pc,                 \* position of the scan in the loop body
    df_k,               \* the frame of the symbol being processed
    peak_idx, peak_price,
    base_idx, base_price,
    current_price,
    signals,            \* the list of emitted signals
    \* ---- utils/data_fetcher.py: quant_stock_screener ----
    spc,                \* position of the screener
    snapshot_cache,     \* what get_market_snapshot returned (its st.cache_data entry)
    is_tushare,         \* snapshot format flag
    snapshot,           \* the snapshot frame (sequence of rows) being filtered
    candidates,         \* list of ts_code
    ts_codes,           \* the codes get_multi_stock_daily requests
    daily_data,         \* ts_code -> technical factors of its returned frame
    mf_data,            \* ts_code -> money factors of its moneyflow row
    scored,             \* list of scored rows
    top_n,              \* parameter of the call
    result,             \* the ranked output
    \* ---- quant_stock_screener: the scoring of one candidate ----
    sphase,             \* position of the scoring loop
    factors_weight,     \* the weight map, in key order: <<name, weight in percent>>
    all_factors,        \* the candidate's factors: name -> value
    fidx,               \* number of keys of the weight map already visited
    score,              \* the local score, in 1/30000 of a point
    row_score,          \* the stored score, in tenths of a point
    fp_bias,            \* direction of the float error of this summation order
    prev_row_score,     \* the stored score of the previous call
    \* ---- calc_technical_factors ----
    tphase,             \* position of calc_technical_factors
    tech_df,            \* its input frame
    factors,            \* the dict it returns
    bands_differ,       \* the test upper != lower of its Bollinger block
    \* ---- calc_moneyflow_factors ----
    mphase,             \* position of calc_moneyflow_factors
    mf_df,              \* its input frame: the moneyflow rows of one stock, oldest first
    mf_factors,         \* the dict it returns
    \* ---- _safe_call ----
    cphase,             \* position of the caller in _safe_call
    call,               \* the arguments of the call: label, timeout, default
    future,             \* the future of the submitted func
    elapsed,            \* seconds the caller has waited in future.result
    pending,            \* how the with block is being left
    returned            \* the value _safe_call gave back

scanVars == <<total_candidates, surge_threshold, vol_shrink, i, pc, df_k,
              peak_idx, peak_price, base_idx, base_price, current_price, signals>>
rankVars == <<ts_codes, daily_data, mf_data, scored, top_n, result>>
scoreVars == <<sphase, factors_weight, all_factors, fidx, score, row_score,
               fp_bias, prev_row_score>>
techVars == <<tphase, tech_df, factors, bands_differ>>
moneyVars == <<mphase, mf_df, mf_factors>>
callVars == <<cphase, call, future, elapsed, pending, returned>>
auxVars == <<moneyVars, callVars>>
restVars == <<rankVars, scoreVars, techVars, auxVars>>
screenVars == <<spc, snapshot_cache, is_tushare, snapshot, candidates, restVars>>
vars == <<scanVars, screenVars>>

-----------------------------------------------------------------------------
(* Program constants of the pattern scan.                                  *)
MIN_BARS == 40
VERIFY_BARS == 5
STALE_BARS == 30
MIN_BASE_BARS == 5
TOLERANCE_PCT == 12
DEFAULT_SURGE == 40
DEFAULT_SHRINK == 45
DEFAULT_TOP_N == 30

(* Bounds of the model.                                                    *)
MaxExtra == 1
NSym == 3

(* No stored score yet.                                                    *)
NoScore == 0 - 1

Columns == {"trade_date", "high", "low", "close", "vol"}

-----------------------------------------------------------------------------
(* Frames.  A frame is [cols, rows]: rows is a function on 0..n-1 (the     *)
(* positional index after reset_index(drop=True)) of bars.                 *)
LenDF(df) == Cardinality(DOMAIN df.rows)

NoFrame == [cols |-> {}, rows |-> [k \in {} |-> 0]]

Max2(a, b) == IF a >= b THEN a ELSE b
Min2(a, b) == IF a <= b THEN a ELSE b

(* A chronological series of n bars described by a few parameters:         *)
(*   highs are Flat.high except hp at bar p and hq at bar q (q = -1: no    *)
(*   such bar), lows are Flat.low except lb at bar b and lb2 at bar b2     *)
(*   (b2 = -1: none), closes are Flat.close except the last close c,       *)
(*   volumes are v0 before bar s1, v1 on s1..s2 and v2 after s2.           *)
(* Every bar keeps low <= close <= high.                                   *)
Flat == [high |-> 1200, low |-> 1100, close |-> 1150]

Bar(n, k, p, hp, q, hq, b, lb, b2, lb2, c, s1, s2, v0, v1, v2) ==
    LET cl == IF k = n - 1 THEN c ELSE Flat.close
        hi == IF k = p THEN hp ELSE IF k = q THEN hq ELSE Flat.high
        lo == IF k = b THEN lb ELSE IF k = b2 THEN lb2 ELSE Flat.low
    IN  [trade_date |-> k,
         high  |-> Max2(hi, cl),
         low   |-> Min2(lo, cl),
         close |-> cl,
         vol   |-> IF k < s1 THEN v0 ELSE IF k <= s2 THEN v1 ELSE v2]

Series(n, p, hp, q, hq, b, lb, b2, lb2, c, s1, s2, v0, v1, v2) ==
    [k \in 0..(n - 1) |-> Bar(n, k, p, hp, q, hq, b, lb, b2, lb2, c, s1, s2, v0, v1, v2)]


-----------------------------------------------------------------------------
(* What ts.pro_bar hands back: the bars in the provider's order (newest    *)
(* first, or already chronological), under the positional index 0..n-1.    *)
Provider(series, cols, order) ==
    LET n == Cardinality(DOMAIN series)
    IN  [cols |-> cols,
         rows |-> [k \in 0..(n - 1) |->
                     IF order = "desc" THEN series[n - 1 - k] ELSE series[k]]]

Lengths == MIN_BARS..(MIN_BARS + MaxExtra)

(* q and hq of a second high bar near bar p or near the end of the series. *)
Rivals(n, p, hp) ==
    {<<-1, 0>>} \cup
    {<<q, h>> : q \in ({p - 1, p + 1, n - VERIFY_BARS - 1, n - VERIFY_BARS, n - 1}
                        \cap (0..(n - 1))) \ {p},
                h \in {hp, hp + 50}}

(* Series that vary the positions of the peak, of a second high and of the *)
(* lows, with the prices and volumes of a passing pattern.                 *)
FamPos ==
    UNION {UNION {{Series(n, p, 1450, r[1], r[2], b, 1000, b2, 900, 1225, 0, p, 100, 100, 40) :
                      r \in Rivals(n, p, 1450),
                      b \in {0, p - 1} \cap (0..(n - 1)),
                      b2 \in {-1, p}} :
                  p \in 0..(n - 1)} :
           n \in Lengths}

(* Series that vary the prices and the volumes around every gate, with the *)
(* peak one bar too old, just fresh enough, and at the last eligible bar.  *)
FamVal ==
    UNION {UNION {{Series(n, p, hp, -1, 0, b, lb, -1, 0, c, p - 2, p, 300, 100, v2) :
                      hp \in {1399, 1400, 1450}, lb \in {1000, 1036},
                      b \in {p - 3, p - 1}, c \in {1077, 1078, 1225, 1372, 1373},
                      v2 \in {40, 45, 46, 60}} :
                  p \in {n - STALE_BARS - 1, n - STALE_BARS, n - VERIFY_BARS - 1}} :
           n \in Lengths}

(* The scenario of the specification: base 100 at bar 10, peak 145 at bar  *)
(* 40 (or 35 bars before the end), last close 122.5, pullback volume 40%   *)
(* or 60% of the impulse volume.                                           *)
ScenarioLen == MIN_BARS + 6

FamScenario ==
    {Series(ScenarioLen, p, 1450, -1, 0, 10, 1000, -1, 0, 1225, 10, p, 250, 100, v2) :
        p \in {40, ScenarioLen - 35}, v2 \in {40, 60}}

PassSeries == Series(ScenarioLen, 40, 1450, -1, 0, 10, 1000, -1, 0, 1225, 10, 40, 250, 100, 40)

(* Series one bar short of the minimum, with the pattern of a passing one  *)
(* (peak 145 at bar p, base 100 just before it), and the empty series.     *)
FamShort ==
    {Series(MIN_BARS - 1, p, 1450, -1, 0, p - 1, 1000, -1, 0, 1225, 0, p, 100, 100, 40) :
        p \in {MIN_BARS - 1 - STALE_BARS, MIN_BARS - 1 - VERIFY_BARS - 1}}
    \cup {Series(0, 0, 0, 0, 0, 0, 0, 0, 0, 0, 0, 0, 0, 0, 0)}

(* Series at the edges of the retracement band: a surge of exactly 40%     *)
(* with the last close on either edge of the band, and a surge of 25% with *)
(* the last close just inside the band, below the base or above the peak.  *)
FamTight ==
    UNION {{Series(n, n - 10, 1400, -1, 0, n - 11, 1000, -1, 0, c, n - 12, n - 10, 300, 100, 40) :
               c \in {1056, 1344}}
           \cup {Series(n, n - 10, 1250, -1, 0, n - 11, 1000, -1, 0, c, n - 12, n - 10, 300, 100, 40) :
               c \in {995, 1255}} :
           n \in Lengths}

FullFrames(S, orders) == {Provider(s, Columns, o) : s \in S, o \in orders}

(* Frames with a column missing: the computation raises when it reads it.  *)
BrokenFrames(S) == {Provider(s, Columns \ {c}, "desc") : s \in S, c \in Columns}

(* The frames a fetch may return in the detector's specification: the      *)
(* position family under the default sliders only.                         *)
RichFrames(st, vs) ==
    FullFrames(FamVal, {"desc"})
    \cup FullFrames(FamScenario \cup FamShort, {"desc", "asc"})
    \cup FullFrames(FamTight, {"desc"})
    \cup BrokenFrames({PassSeries})
    \cup (IF st = DEFAULT_SURGE /\ vs = DEFAULT_SHRINK
          THEN FullFrames(FamPos, {"desc"}) ELSE {})

-----------------------------------------------------------------------------
(* pandas operations used by the scan.                                     *)

(* df.sort_values('trade_date').reset_index(drop=True): each row is        *)
(* ranked by the number of rows of an earlier date, and position k takes   *)
(* the row of rank k (the dates of a frame are distinct).                  *)
sort_values(df) ==
    LET n == LenDF(df)
        ranked == {<<Cardinality({m \in 0..(n - 1) :
                                    df.rows[m].trade_date < df.rows[j].trade_date}), j>> :
                     j \in 0..(n - 1)}
    IN  [cols |-> df.cols,
         rows |-> [k \in 0..(n - 1) |->
                     df.rows[(CHOOSE p \in ranked : p[1] = k)[2]]]]

(* Series.idxmax() over positions 0..last: the first position of the       *)
(* largest high.                                                           *)
idxmax_high(rows, last) ==
    CHOOSE k \in 0..last :
        /\ \A j \in 0..last : rows[j].high <= rows[k].high
        /\ \A j \in 0..(k - 1) : rows[j].high < rows[k].high

(* Series.idxmin() over positions 0..last: the first position of the       *)
(* smallest low.                                                           *)
first_min_low(rows, last) ==
    CHOOSE k \in 0..last :
        /\ \A j \in 0..last : rows[j].low >= rows[k].low
        /\ \A j \in 0..(k - 1) : rows[j].low > rows[k].low

(* Mutant: the window of the base search takes in the peak bar.            *)
idxmin_low_incl(rows, last) == first_min_low(rows, last + 1)

idxmin_low(rows, last) == first_min_low(rows, last)

(* Sum of the volumes of positions from..to (empty when from > to).        *)
RECURSIVE SumVol(_, _, _)
SumVol(rows, from, to) ==
    IF from > to THEN 0
    ELSE IF from = to THEN rows[from].vol
    ELSE SumVol(rows, from, (from + to) \div 2)
           + SumVol(rows, (from + to) \div 2 + 1, to)

(* The integers nearest to num/den (den > 0, num >= 0): both neighbours at *)
(* an exact tie, where the result of formatting the binary float depends   *)
(* on its representation error.                                            *)
RoundNearest(num, den) ==
    LET f == num \div den
        r == num % den
    IN  IF 2 * r < den THEN {f} ELSE IF 2 * r > den THEN {f + 1} ELSE {f, f + 1}

-----------------------------------------------------------------------------
(* The windows and the gates of the scan loop body.                        *)

(* Mutant: no bar is reserved at the end of the series.                    *)
search_window_whole(df) == LenDF(df) - 1

(* Mutant: four bars are reserved at the end of the series.                *)
search_window_4(df) == LenDF(df) - VERIFY_BARS

(* search_window = df_k.iloc[:-5]: its last position.                      *)
search_window_last(df) == LenDF(df) - VERIFY_BARS - 1

(* Mutant: the stale gate rejects a peak exactly 30 bars before the end.   *)
stale_ge(df, pk) == LenDF(df) - pk >= STALE_BARS

(* Mutant: the stale gate lets a peak up to 60 bars old pass.              *)
stale_60(df, pk) == LenDF(df) - pk > 2 * STALE_BARS

(* len(df_k) - peak_idx > 30                                               *)
stale(df, pk) == LenDF(df) - pk > STALE_BARS

(* len(base_window) < 5, base_window = search_window.iloc[:peak_idx]       *)
base_window_short(df, pk) == Min2(pk, search_window_last(df) + 1) < MIN_BASE_BARS

(* Mutant: the surge gate rejects a surge equal to the threshold.          *)
surge_low_le(pkp, bsp, st) == (pkp - bsp) * 100 <= st * bsp

(* Mutant: the threshold is read as a per-mille value.                     *)
surge_low_permille(pkp, bsp, st) == (pkp - bsp) * 1000 < st * bsp

(* surge < surge_threshold / 100, surge = (peak_price - base_price) /      *)
(* base_price, for base_price > 0                                          *)
surge_low(pkp, bsp, st) == (pkp - bsp) * 100 < st * bsp

(* Mutant: the bounds of the retracement band are exclusive.               *)
in_band_strict(pkp, bsp, cur) ==
    /\ (100 - TOLERANCE_PCT) * (pkp + bsp) < 200 * cur
    /\ 200 * cur < (100 + TOLERANCE_PCT) * (pkp + bsp)

(* target - tolerance <= current <= target + tolerance, with               *)
(* target = peak - (peak - base) * 0.5 and tolerance = target * 0.12       *)
in_band(pkp, bsp, cur) ==
    /\ (100 - TOLERANCE_PCT) * (pkp + bsp) <= 200 * cur
    /\ 200 * cur <= (100 + TOLERANCE_PCT) * (pkp + bsp)

(* impulse_vol and pullback_vol as sum and count                           *)
impulse_sum(df, bs, pk) == SumVol(df.rows, bs, pk)
impulse_cnt(bs, pk) == pk + 1 - bs
pullback_sum(df, pk) == SumVol(df.rows, pk + 1, LenDF(df) - 1)
pullback_cnt(df, pk) == LenDF(df) - 1 - pk

(* Mutant: the volume gate rejects a ratio equal to the ceiling.           *)
shrink_high_ge(df, bs, pk, vs) ==
    SumVol(df.rows, pk + 1, LenDF(df) - 1) * (pk + 1 - bs) * 100
        >= vs * SumVol(df.rows, bs, pk) * (LenDF(df) - 1 - pk)

(* shrink_ratio > vol_shrink / 100, shrink_ratio = pullback_vol /          *)
(* impulse_vol, for positive volumes                                       *)
shrink_high(df, bs, pk, vs) ==
    pullback_sum(df, pk) * impulse_cnt(bs, pk) * 100
        > vs * impulse_sum(df, bs, pk) * pullback_cnt(df, pk)

(* Mutant: the target of the signal is half the rally, not its midpoint.   *)
signal_rows_half(code, df, bs, pk, pkp, bsp, cur) ==
    {[ts_code |-> code, surge |-> sg, current_price |-> cur, target |-> tg, shrink |-> sh] :
        sg \in RoundNearest(1000 * (pkp - bsp), bsp),
        tg \in RoundNearest(100 * (pkp - bsp), 20),
        sh \in RoundNearest(1000 * SumVol(df.rows, pk + 1, LenDF(df) - 1) * (pk + 1 - bs),
                            SumVol(df.rows, bs, pk) * (LenDF(df) - 1 - pk))}

(* The dictionaries signals.append may add: the surge and the shrink ratio *)
(* as percentages with one decimal (in tenths of a percent), the target    *)
(* rounded to 2 decimals (in hundredths), the last close as it is.         *)
signal_rows(code, df, bs, pk, pkp, bsp, cur) ==
    {[ts_code |-> code, surge |-> sg, current_price |-> cur, target |-> tg, shrink |-> sh] :
        sg \in RoundNearest(1000 * (pkp - bsp), bsp),
        tg \in RoundNearest(100 * (pkp + bsp), 20),
        sh \in RoundNearest(1000 * pullback_sum(df, pk) * impulse_cnt(bs, pk),
                            impulse_sum(df, bs, pk) * pullback_cnt(df, pk))}

-----------------------------------------------------------------------------
(* The scan loop of pages/5_Pullback.py, lines 118-193.  pc is the place   *)
(* of the scan: FETCH (loop head and fetch), the five stages of the        *)
(* detector, the three ends of a loop body (SIGNAL: appended; REJECT: a    *)
(* continue; EXCEPT: the handler of the per-symbol try), DONE (line 193).  *)
(* The symbol being processed is row i of df_universe; its ts_code is      *)
(* modelled by i.  The locals keep their values from one symbol to the     *)
(* next, as Python's do.                                                   *)

rankIdle ==
    /\ ts_codes = <<>> /\ daily_data = <<>> /\ mf_data = <<>> /\ scored = <<>>
    /\ top_n = DEFAULT_TOP_N /\ result = <<>>

scoreIdle ==
    /\ sphase = "IDLE" /\ factors_weight = <<>> /\ all_factors = <<>>
    /\ fidx = 0 /\ score = 0 /\ row_score = NoScore
    /\ fp_bias = 0 /\ prev_row_score = NoScore

techIdle == tphase = "IDLE" /\ tech_df = <<>> /\ factors = <<>> /\ bands_differ = FALSE

moneyIdle == mphase = "IDLE" /\ mf_df = <<>> /\ mf_factors = <<>>

NoValue == "-"
NoCall == [label |-> NoValue, timeout |-> 0, default |-> NoValue]
NotSubmitted == [state |-> "NOT_SUBMITTED", value |-> NoValue]
NotLeaving == [kind |-> NoValue, value |-> NoValue]
callIdle ==
    /\ cphase = "IDLE" /\ call = NoCall /\ future = NotSubmitted
    /\ elapsed = 0 /\ pending = NotLeaving /\ returned = NoValue

auxIdle == moneyIdle /\ callIdle

restIdle == rankIdle /\ scoreIdle /\ techIdle /\ auxIdle

screenIdle ==
    /\ spc = "IDLE" /\ is_tushare = TRUE
    /\ snapshot_cache = [cols |-> {}, rows |-> <<>>]
    /\ snapshot = [cols |-> {}, rows |-> <<>>] /\ candidates = <<>>
    /\ restIdle

scanIdle ==
    /\ total_candidates = 0 /\ surge_threshold = DEFAULT_SURGE /\ vol_shrink = DEFAULT_SHRINK
    /\ i = 0 /\ pc = "IDLE" /\ df_k = NoFrame
    /\ peak_idx = 0 /\ peak_price = 0 /\ base_idx = 0 /\ base_price = 0
    /\ current_price = 0 /\ signals = <<>>

ScanInit(maxSym, sliders) ==
    /\ total_candidates \in 1..maxSym
    /\ \E sl \in sliders : surge_threshold = sl[1] /\ vol_shrink = sl[2]
    /\ i = 0
    /\ pc = "FETCH"
    /\ df_k = NoFrame
    /\ peak_idx = 0 /\ peak_price = 0
    /\ base_idx = 0 /\ base_price = 0
    /\ current_price = 0
    /\ signals = <<>>

locals == <<peak_idx, peak_price, base_idx, base_price, current_price>>
params == <<total_candidates, surge_threshold, vol_shrink>>

(* Mutant: no per-symbol handler; the error leaves the loop.               *)
FetchRaise_abort ==
    /\ pc = "FETCH" /\ i < total_candidates
    /\ pc' = "ABORTED"
    /\ UNCHANGED <<params, i, df_k, locals, signals, screenVars>>

(* ts.pro_bar raises (line 130): the handler of lines 188-191 runs.        *)
FetchRaise ==
    /\ pc = "FETCH" /\ i < total_candidates
    /\ pc' = "EXCEPT"
    /\ UNCHANGED <<params, i, df_k, locals, signals, screenVars>>

(* ts.pro_bar returns None (lines 130-134).                                *)
FetchNone ==
    /\ pc = "FETCH" /\ i < total_candidates
    /\ df_k' = NoFrame
    /\ pc' = "REJECT"
    /\ UNCHANGED <<params, i, locals, signals, screenVars>>

(* ts.pro_bar returns a frame (lines 130-136): the length check, then the  *)
(* sort by trade_date.                                                     *)
FetchFrame(frames) ==
    /\ pc = "FETCH" /\ i < total_candidates
    /\ \E raw \in frames :
         IF LenDF(raw) < MIN_BARS
         THEN df_k' = raw /\ pc' = "REJECT"
         ELSE IF "trade_date" \notin raw.cols
         THEN df_k' = raw /\ pc' = "EXCEPT"
         ELSE df_k' = sort_values(raw) /\ pc' = "SEARCH_PEAK"
    /\ UNCHANGED <<params, i, locals, signals, screenVars>>

(* Lines 141-147: the peak of the search window, then the stale gate.      *)
SearchPeak ==
    /\ pc = "SEARCH_PEAK"
    /\ IF "high" \notin df_k.cols
       THEN pc' = "EXCEPT" /\ UNCHANGED <<peak_idx, peak_price>>
       ELSE LET pk == idxmax_high(df_k.rows, search_window_last(df_k))
            IN  /\ peak_idx' = pk
                /\ peak_price' = df_k.rows[pk].high
                /\ pc' = IF stale(df_k, pk) THEN "REJECT" ELSE "SEARCH_BASE"
    /\ UNCHANGED <<params, i, df_k, base_idx, base_price, current_price, signals, screenVars>>

(* Lines 149-152: the base window, its length gate, the base.              *)
SearchBase ==
    /\ pc = "SEARCH_BASE"
    /\ IF base_window_short(df_k, peak_idx)
       THEN pc' = "REJECT" /\ UNCHANGED <<base_idx, base_price>>
       ELSE IF "low" \notin df_k.cols
       THEN pc' = "EXCEPT" /\ UNCHANGED <<base_idx, base_price>>
       ELSE LET bs == idxmin_low(df_k.rows, peak_idx - 1)
            IN  /\ base_idx' = bs
                /\ base_price' = df_k.rows[bs].low
                /\ pc' = "CHECK_SURGE"
    /\ UNCHANGED <<params, i, df_k, peak_idx, peak_price, current_price, signals, screenVars>>

(* Lines 155-157: the surge gate.                                          *)
CheckSurge ==
    /\ pc = "CHECK_SURGE"
    /\ pc' = IF surge_low(peak_price, base_price, surge_threshold)
             THEN "REJECT" ELSE "CHECK_RETRACEMENT"
    /\ UNCHANGED <<params, i, df_k, locals, signals, screenVars>>

(* Lines 160-165: the last close against the band around the target.       *)
CheckRetracement ==
    /\ pc = "CHECK_RETRACEMENT"
    /\ IF "close" \notin df_k.cols
       THEN pc' = "EXCEPT" /\ UNCHANGED current_price
       ELSE LET cur == df_k.rows[LenDF(df_k) - 1].close
            IN  /\ current_price' = cur
                /\ pc' = IF in_band(peak_price, base_price, cur)
                         THEN "CHECK_VOLUME" ELSE "REJECT"
    /\ UNCHANGED <<params, i, df_k, peak_idx, peak_price, base_idx, base_price, signals, screenVars>>

(* Mutant: signals.append comes before the volume gate.                    *)
CheckVolume_early ==
    /\ pc = "CHECK_VOLUME"
    /\ IF "vol" \notin df_k.cols
       THEN pc' = "EXCEPT" /\ UNCHANGED signals
       ELSE /\ \E row \in signal_rows(i, df_k, base_idx, peak_idx,
                                      peak_price, base_price, current_price) :
                  signals' = Append(signals, row)
            /\ pc' = IF shrink_high(df_k, base_idx, peak_idx, vol_shrink)
                     THEN "REJECT" ELSE "SIGNAL"
    /\ UNCHANGED <<params, i, df_k, locals, screenVars>>

(* Lines 168-186: the volume gate and, past it, signals.append.            *)
CheckVolume ==
    /\ pc = "CHECK_VOLUME"
    /\ IF "vol" \notin df_k.cols
       THEN pc' = "EXCEPT" /\ UNCHANGED signals
       ELSE IF shrink_high(df_k, base_idx, peak_idx, vol_shrink)
       THEN pc' = "REJECT" /\ UNCHANGED signals
       ELSE /\ \E row \in signal_rows(i, df_k, base_idx, peak_idx,
                                      peak_price, base_price, current_price) :
                  signals' = Append(signals, row)
            /\ pc' = "SIGNAL"
    /\ UNCHANGED <<params, i, df_k, locals, screenVars>>

(* The end of a loop body, by fall-through, continue or the handler's      *)
(* continue: the next row of df_universe (line 118).                       *)
NextSymbol ==
    /\ pc \in {"SIGNAL", "REJECT", "EXCEPT"}
    /\ i' = i + 1
    /\ pc' = "FETCH"
    /\ UNCHANGED <<params, df_k, locals, signals, screenVars>>

(* The loop is exhausted: line 193.                                        *)
ScanFinish ==
    /\ pc = "FETCH" /\ i = total_candidates
    /\ pc' = "DONE"
    /\ UNCHANGED <<params, i, df_k, locals, signals, screenVars>>

Detect ==
    \/ SearchPeak \/ SearchBase \/ CheckSurge \/ CheckRetracement \/ CheckVolume

Sliders == {<<DEFAULT_SURGE, DEFAULT_SHRINK>>, <<45, 40>>}

(* The detector on one symbol, over the rich families of frames.           *)
Init == ScanInit(1, Sliders) /\ screenIdle

FetchRich == FetchFrame(RichFrames(surge_threshold, vol_shrink))

Next ==
    \/ FetchRaise \/ FetchNone \/ FetchRich
    \/ SearchPeak \/ SearchBase \/ CheckSurge \/ CheckRetracement \/ CheckVolume
    \/ NextSymbol \/ ScanFinish

Spec == Init /\ [][Next]_vars

-----------------------------------------------------------------------------
(* The scan over several symbols.  A fetch returns one of a few frames:    *)
(* the scenario's (a signal; a volume rejection; two stale peaks), one     *)
(* that fails the surge gate, one that fails the retracement gate, a short *)
(* one, and the passing frame with one column missing.                     *)
ScanSeries ==
    FamScenario
    \cup {Series(ScenarioLen, 40, 1399, -1, 0, 10, 1000, -1, 0, 1225, 10, 40, 250, 100, 40),
          Series(ScenarioLen, 40, 1450, -1, 0, 10, 1000, -1, 0, 1077, 10, 40, 250, 100, 40),
          Series(MIN_BARS - 1, 20, 1450, -1, 0, 10, 1000, -1, 0, 1225, 10, 20, 250, 100, 40)}

ScanFrames == FullFrames(ScanSeries, {"desc"}) \cup BrokenFrames({PassSeries})

InitScan == ScanInit(NSym, {<<DEFAULT_SURGE, DEFAULT_SHRINK>>}) /\ screenIdle

FetchScan == FetchFrame(ScanFrames)

NextScan ==
    \/ FetchRaise \/ FetchNone \/ FetchScan
    \/ SearchPeak \/ SearchBase \/ CheckSurge \/ CheckRetracement \/ CheckVolume
    \/ NextSymbol \/ ScanFinish

SpecScan == InitScan /\ [][NextScan]_vars

(* The scan is one sequential thread: a step that can be taken is taken.   *)
FairScan == SpecScan /\ WF_vars(NextScan)

-----------------------------------------------------------------------------
(* quant_stock_screener, utils/data_fetcher.py lines 1759-1836: the        *)
(* snapshot, the universe filter and the candidate pool.                   *)
(*                                                                         *)
(* A snapshot is [cols, rows]: rows is a sequence of rows                  *)
(*   [code, ex, name, amount, pct]                                         *)
(* code is the ticker's digits, ex the exchange suffix of a Tushare        *)
(* ts_code, name a sequence of characters (<<>>: no name, NaN), amount the *)
(* turnover in the unit of the format (Tushare: thousands; AKShare:        *)
(* units), pct the percent change in hundredths of a percent.  NaN stands  *)
(* for a value pd.to_numeric could not read: every comparison with it is   *)
(* false.  cols names the columns present, by their Tushare names.         *)
NaN == 0 - 999999999

min_amount == 5000
POOL_SIZE == 200
BATCH_SIZE == 50
LIMIT_PCT == 980

(* Mutant: the comparison with the limit is not strict.                    *)
lt_le(a, b) == a # NaN /\ b # NaN /\ a <= b

ge(a, b) == a # NaN /\ b # NaN /\ a >= b
lt(a, b) == a # NaN /\ b # NaN /\ a < b
gt(a, b) == a # NaN /\ b # NaN /\ a > b

(* Series.str.contains("ST|<tui>", na=False), <tui> being the delisting    *)
(* character U+9000, modelled by the one-character token "TUI".            *)
contains_marker(name) ==
    \/ \E k \in 1..(Len(name) - 1) : name[k] = "S" /\ name[k + 1] = "T"
    \/ \E k \in 1..Len(name) : name[k] = "TUI"

(* Series.str.startswith("8")                                              *)
startswith_8(code) == Len(code) >= 1 /\ code[1] = 8

(* _to_ts_code, lines 1815-1820                                            *)
to_ts_code(code) == <<code, IF code[1] = 6 THEN "SH" ELSE "SZ">>

ts_code_of(row) == <<row.code, row.ex>>

(* Lines 1793-1803: the Tushare branch of the filter.                      *)
filter_tushare(snap) ==
    LET s1 == IF "name" \in snap.cols
              THEN SelectSeq(snap.rows, LAMBDA r : ~contains_marker(r.name))
              ELSE snap.rows
        s2 == SelectSeq(s1, LAMBDA r : ge(10 * r.amount, min_amount))
        s3 == SelectSeq(s2, LAMBDA r : ~startswith_8(r.code))
        s4 == IF "pct_chg" \in snap.cols
              THEN SelectSeq(s3, LAMBDA r : lt(r.pct, LIMIT_PCT) /\ gt(r.pct, -LIMIT_PCT))
              ELSE s3
    IN  [cols |-> snap.cols, rows |-> s4]

(* Lines 1805-1813: the AKShare branch of the filter.                      *)
filter_akshare(snap) ==
    LET s1 == IF "name" \in snap.cols
              THEN SelectSeq(snap.rows, LAMBDA r : ~contains_marker(r.name))
              ELSE snap.rows
        s2 == IF "amount" \in snap.cols
              THEN SelectSeq(s1, LAMBDA r : ge(r.amount, min_amount * 10000))
              ELSE s1
        s3 == IF "ts_code" \in snap.cols
              THEN SelectSeq(s2, LAMBDA r : ~startswith_8(r.code))
              ELSE s2
        s4 == IF "pct_chg" \in snap.cols
              THEN SelectSeq(s3, LAMBDA r : lt(r.pct, LIMIT_PCT) /\ gt(r.pct, -LIMIT_PCT))
              ELSE s3
    IN  [cols |-> snap.cols, rows |-> s4]

(* Lines 1814-1825: the AKShare rows get their ts_code.                    *)
with_ts_code(snap) ==
    [cols |-> snap.cols,
     rows |-> [k \in 1..Len(snap.rows) |->
                 [snap.rows[k] EXCEPT !.ex = to_ts_code(snap.rows[k].code)[2]]]]

codes_of(rows) == [k \in 1..Len(rows) |-> ts_code_of(rows[k])]

(* The index orders a descending sort of the keys may produce.  The stable *)
(* order ranks an index by the number of larger keys and of equal keys     *)
(* before it; quicksort is not stable, so the indices of equal keys may    *)
(* come in any order among themselves.                                     *)
orders_desc(keys) ==
    LET n == Len(keys)
        ranked == {<<Cardinality({m \in 1..n : keys[m] > keys[j]})
                       + Cardinality({m \in 1..(j - 1) : keys[m] = keys[j]}) + 1, j>> :
                     j \in 1..n}
        stable == [k \in 1..n |-> (CHOOSE p \in ranked : p[1] = k)[2]]
        tied == {keys[j] : j \in {m \in 1..n : \E o \in 1..n : o # m /\ keys[o] = keys[m]}}
        idx(a) == {j \in 1..n : keys[j] = a}
        bij(S) == {f \in [S -> S] : \A x, y \in S : x # y => f[x] # f[y]}
        choices == {c \in [tied -> UNION {bij(idx(a)) : a \in tied}] :
                      \A a \in tied : c[a] \in bij(idx(a))}
    IN  {[k \in 1..n |-> IF keys[stable[k]] \in tied
                         THEN c[keys[stable[k]]][stable[k]] ELSE stable[k]] :
            c \in choices}

(* sort_values(amount, ascending=False)                                    *)
sorted_desc(rows) ==
    {[k \in 1..Len(rows) |-> rows[o[k]]] :
        o \in orders_desc([k \in 1..Len(rows) |-> rows[k].amount])}

head(s, n) == SubSeq(s, 1, Min2(n, Len(s)))

(* The snapshots get_market_snapshot may return: no row, one row or two    *)
(* rows of distinct tickers; one row runs over the percent changes around  *)
(* the limit-move boundary, the other over names, turnovers and segments.  *)
SH1 == <<6, 0, 0, 0, 0, 1>>
SZ2 == <<0, 0, 0, 0, 0, 2>>
BJ3 == <<8, 3, 0, 0, 0, 1>>

Row(code, name, amount, pct) ==
    [code |-> code,
     ex |-> IF code[1] = 6 THEN "SH" ELSE IF code[1] = 8 THEN "BJ" ELSE "SZ",
     name |-> name, amount |-> amount, pct |-> pct]

PctVals == {-1000, -LIMIT_PCT, 1 - LIMIT_PCT, 0, LIMIT_PCT - 1, LIMIT_PCT, 1000, NaN}

Names == {<<"P", "A">>, <<"*", "S", "T", "A">>, <<"A", "TUI">>, <<"S", "A", "T">>, <<>>}

(* Turnovers in currency units, and in the unit of the format.             *)
Yuan == {499000, 500000, 49999000, 50000000}
in_unit(yuan, tushare) == IF tushare THEN yuan \div 1000 ELSE yuan

RowsPct(tushare) ==
    {Row(SH1, <<"P", "A">>, in_unit(50000000, tushare), pct) : pct \in PctVals}

RowsAttr(tushare) ==
    {Row(code, name, in_unit(y, tushare), pct) :
        code \in {SZ2, BJ3}, name \in Names, y \in Yuan, pct \in {0, LIMIT_PCT}}

RowSeqs(tushare) ==
    {<<>>}
    \cup {<<r>> : r \in RowsPct(tushare) \cup RowsAttr(tushare)}
    \cup {<<a, b>> : a \in RowsPct(tushare), b \in RowsAttr(tushare)}
    \cup {<<b, a>> : a \in RowsPct(tushare), b \in RowsAttr(tushare)}

AllCols == {"ts_code", "name", "amount", "pct_chg"}

(* pro.daily always carries ts_code, amount and pct_chg, and the name when *)
(* the merge with stock_basic succeeded; an AKShare frame may lack any one *)
(* of its columns.                                                         *)
ColSets(tushare) ==
    IF tushare
    THEN {AllCols, AllCols \ {"name"}}
    ELSE {AllCols} \cup {AllCols \ {c} : c \in AllCols}

(* A snapshot of the size of a market: POOL_SIZE + PoolSurplus rows that  *)
(* pass the filter, in ascending order of turnover, the rows at the cut of *)
(* the pool and at the cut of the batch having equal turnovers, followed   *)
(* by three rows of the largest turnover that fail one rule each.          *)
PoolSurplus == 2
Survivors == POOL_SIZE + PoolSurplus

Ticker(no) ==
    <<IF no % 2 = 0 THEN 6 ELSE 0, 0, 0, no \div 100, (no \div 10) % 10, no % 10>>

MarketTier(no) ==
    IF no = Survivors - POOL_SIZE \/ no = Survivors - BATCH_SIZE THEN no + 1 ELSE no

MarketRows(tushare) ==
    [no \in 1..Survivors |->
        Row(Ticker(no), <<"P", "A">>, in_unit(60000000 + 10000 * MarketTier(no), tushare), 0)]
    \o << Row(Ticker(Survivors + 1), <<"*", "S", "T", "A">>, in_unit(99000000, tushare), 0),
          Row(<<8, 3, 0, 0, 0, 2>>, <<"P", "A">>, in_unit(99000000, tushare), 0),
          Row(Ticker(Survivors + 3), <<"P", "A">>, in_unit(99000000, tushare), LIMIT_PCT) >>

Snapshots(tushare) ==
    {[cols |-> cs, rows |-> rs] : cs \in ColSets(tushare), rs \in RowSeqs(tushare)}
    \cup {[cols |-> AllCols, rows |-> MarketRows(tushare)]}

InitScreen ==
    /\ scanIdle
    /\ spc = "START" /\ is_tushare = TRUE
    /\ snapshot_cache = [cols |-> {}, rows |-> <<>>]
    /\ snapshot = [cols |-> {}, rows |-> <<>>] /\ candidates = <<>>
    /\ restIdle

(* Lines 1785-1791: the snapshot, the empty return, the format flag.       *)
ScreenSnapshot ==
    /\ spc = "START"
    /\ \E fmt \in BOOLEAN : \E snap \in Snapshots(fmt) :
         /\ snapshot_cache' = snap
         /\ snapshot' = snap
         /\ is_tushare' = IF snap.rows = <<>> THEN is_tushare ELSE fmt
         /\ spc' = IF snap.rows = <<>> THEN "RETURN_EMPTY" ELSE "FILTER"
    /\ UNCHANGED <<candidates, scanVars, restVars>>

(* Lines 1793-1829: the filter, the candidates, the empty return.          *)
ScreenFilter ==
    /\ spc = "FILTER"
    /\ LET kept == IF is_tushare THEN filter_tushare(snapshot)
                   ELSE IF "ts_code" \in snapshot.cols
                   THEN with_ts_code(filter_akshare(snapshot))
                   ELSE filter_akshare(snapshot)
           cand == IF is_tushare \/ "ts_code" \in snapshot.cols
                   THEN codes_of(kept.rows) ELSE <<>>
       IN  /\ snapshot' = kept
           /\ candidates' = cand
           /\ spc' = IF cand = <<>> THEN "RETURN_EMPTY" ELSE "POOL"
    /\ UNCHANGED <<snapshot_cache, is_tushare, scanVars, restVars>>

(* Lines 1831-1836: the pool, the POOL_SIZE rows of largest turnover.      *)
ScreenPool ==
    /\ spc = "POOL"
    /\ IF "amount" \notin snapshot.cols
       THEN spc' = "RAISED" /\ UNCHANGED candidates
       ELSE /\ \E srt \in sorted_desc(snapshot.rows) :
                  candidates' = codes_of(head(srt, POOL_SIZE))
            /\ spc' = "FETCH_DAILY"
    /\ UNCHANGED <<snapshot_cache, is_tushare, snapshot, scanVars, restVars>>

-----------------------------------------------------------------------------
(* quant_stock_screener, lines 1880-1908: the composite score of one       *)
(* candidate.                                                              *)
(*                                                                         *)
(* Factor values are integers in the precision the factor functions round  *)
(* to: momentum and volume ratio in hundredths, RSI in tenths, flags, days *)
(* and the net flow in units.  A weight is an integer number of percent.   *)
(* A subscore is kept as 300 times its value and the local score as 30000  *)
(* times its value, which makes every quantity of lines 1886-1906 an       *)
(* integer.                                                                *)

(* The default weight map, lines 1773-1782, in key order.                  *)
DefaultWeights ==
    << <<"momentum_20d", 15>>, <<"volume_ratio_5_20", 15>>, <<"macd_cross", 10>>,
       <<"ma_bullish", 10>>, <<"RSI_14", 10>>, <<"main_net_flow_5d", 20>>,
       <<"consecutive_inflow_days", 10>>, <<"new_high_20", 10>> >>

(* custom_weights of pages/4_Quant.py, lines 86-95, for slider values w:   *)
(* the same keys in another order.                                         *)
PageWeights(w) ==
    << <<"momentum_20d", w[1]>>, <<"ma_bullish", w[2]>>, <<"macd_cross", w[3]>>,
       <<"RSI_14", w[4]>>, <<"volume_ratio_5_20", w[5]>>, <<"new_high_20", w[6]>>,
       <<"main_net_flow_5d", w[7]>>, <<"consecutive_inflow_days", w[8]>> >>

(* dict.get(name, default)                                                 *)
get(d, name, default) == IF name \in DOMAIN d THEN d[name] ELSE default

(* Mutant: no clamp.                                                       *)
unclamped(x, hi) == x

(* min(max(x, 0), hi)                                                      *)
clamp(x, hi) == Min2(Max2(x, 0), hi)

(* Mutant: the RSI band 50..80 is open at 80.                              *)
subscore_open80(factor_name, val) ==
    IF factor_name = "RSI_14"
    THEN (IF 500 <= val /\ val < 800 THEN 30000
          ELSE IF 400 <= val /\ val < 500 THEN 18000
          ELSE IF val > 800 THEN 9000 ELSE 6000)
    ELSE IF factor_name = "momentum_20d" THEN clamp(10 * (val + 1000), 30000)
    ELSE IF factor_name = "volume_ratio_5_20" THEN clamp(150 * val, 30000)
    ELSE IF factor_name \in {"macd_cross", "ma_bullish", "new_high_20"} THEN val * 30000
    ELSE IF factor_name = "main_net_flow_5d" THEN clamp(3 * (val + 5000), 30000)
    ELSE IF factor_name = "consecutive_inflow_days" THEN Min2(val * 6000, 30000)
    ELSE clamp(300 * val, 30000)

(* Lines 1884-1906: 300 times the term that multiplies the weight.         *)
subscore(factor_name, val) ==
    IF factor_name = "momentum_20d" THEN clamp(10 * (val + 1000), 30000)
    ELSE IF factor_name = "volume_ratio_5_20" THEN clamp(150 * val, 30000)
    ELSE IF factor_name \in {"macd_cross", "ma_bullish", "new_high_20"} THEN val * 30000
    ELSE IF factor_name = "RSI_14"
    THEN (IF 500 <= val /\ val <= 800 THEN 30000
          ELSE IF 400 <= val /\ val < 500 THEN 18000
          ELSE IF val > 800 THEN 9000 ELSE 6000)
    ELSE IF factor_name = "main_net_flow_5d" THEN clamp(3 * (val + 5000), 30000)
    ELSE IF factor_name = "consecutive_inflow_days" THEN Min2(val * 6000, 30000)
    ELSE clamp(300 * val, 30000)

(* Lines 1882-1883 and the += of the branch taken: one key of the map.     *)
term(fw, k, af) == fw[k][2] * subscore(fw[k][1], get(af, fw[k][1], 0))

(* round(score, 1), in tenths: the nearest tenth; on an exact tie the      *)
(* float sum lies just below or just above it, by the error of the         *)
(* summation order (bias 0: below, 1: above).                              *)
round1(sc, bias) ==
    LET f == sc \div 3000
        r == sc % 3000
    IN  IF 2 * r < 3000 THEN f ELSE IF 2 * r > 3000 THEN f + 1 ELSE f + bias

(* The inputs of the scoring: weight maps and factor dicts.                *)
SliderDefaults == <<15, 10, 10, 10, 15, 10, 20, 10>>
SliderMaxima == <<40, 30, 30, 30, 40, 30, 40, 30>>

WeightMaps ==
    {DefaultWeights, PageWeights(SliderDefaults), PageWeights(SliderMaxima),
     << <<"main_net_flow", 50>>, <<"RSI_14", 50>> >>,
     <<>>}

Reverse(fw) == [k \in 1..Len(fw) |-> fw[Len(fw) + 1 - k]]

(* The orders a second call may give the same name-to-weight pairs in.     *)
Reorderings(fw) ==
    {Reverse(fw)} \cup (IF fw = DefaultWeights THEN {PageWeights(SliderDefaults)} ELSE {})

Without(d, name) == [k \in DOMAIN d \ {name} |-> d[k]]
With(d, name, v) == [k \in DOMAIN d \cup {name} |-> IF k = name THEN v ELSE d[k]]

BaseFactors ==
    [momentum_20d |-> 0 - 955, volume_ratio_5_20 |-> 191, macd_cross |-> 0,
     ma_bullish |-> 1, RSI_14 |-> 340, consecutive_inflow_days |-> 2, new_high_20 |-> 0]

TopFactors ==
    [momentum_20d |-> 2000, volume_ratio_5_20 |-> 200, macd_cross |-> 1,
     ma_bullish |-> 1, RSI_14 |-> 500, main_net_flow_5d |-> 5000,
     consecutive_inflow_days |-> 5, new_high_20 |-> 1]

(* The values a factor function can return for each factor.                *)
FactorValues ==
    [momentum_20d |-> {0 - 1500, 0 - 1000, 0 - 999, 0, 1999, 2000, 2500},
     volume_ratio_5_20 |-> {0, 1, 199, 200, 250},
     macd_cross |-> {0, 1}, ma_bullish |-> {0, 1}, new_high_20 |-> {0, 1},
     RSI_14 |-> {0, 399, 400, 499, 500, 800, 801, 1000},
     main_net_flow_5d |-> {0 - 6000, 0 - 5000, 0 - 4999, 0, 4999, 5000, 6000},
     consecutive_inflow_days |-> {0, 1, 5, 6},
     main_net_flow |-> {0 - 7, 0, 50, 100, 101}]

Variants(B) ==
    UNION {{With(B, n, v) : v \in FactorValues[n]} : n \in DOMAIN FactorValues}
    \cup {Without(B, n) : n \in DOMAIN B}

FactorSets ==
    {<<>>, BaseFactors, TopFactors}
    \cup Variants(BaseFactors) \cup Variants(TopFactors) \cup Variants(<<>>)

screenOff ==
    /\ spc = "IDLE" /\ is_tushare = TRUE
    /\ snapshot_cache = [cols |-> {}, rows |-> <<>>]
    /\ snapshot = [cols |-> {}, rows |-> <<>>] /\ candidates = <<>>

(* Line 1881, for a candidate with its factors and a weight map.           *)
InitScore ==
    /\ scanIdle /\ screenOff /\ rankIdle /\ techIdle /\ auxIdle
    /\ sphase = "LOOP"
    /\ factors_weight \in WeightMaps
    /\ all_factors \in FactorSets
    /\ fidx = 0 /\ score = 0 /\ row_score = NoScore
    /\ fp_bias \in {0, 1} /\ prev_row_score = NoScore

(* Lines 1882-1906: one key of the weight map.                             *)
ScoreFactor ==
    /\ sphase = "LOOP" /\ fidx < Len(factors_weight)
    /\ score' = score + term(factors_weight, fidx + 1, all_factors)
    /\ fidx' = fidx + 1
    /\ UNCHANGED <<sphase, factors_weight, all_factors, row_score, fp_bias, prev_row_score>>
    /\ UNCHANGED <<scanVars, spc, snapshot_cache, is_tushare, snapshot, candidates,
                   rankVars, techVars, auxVars>>

(* Line 1908: the score is stored, rounded to one decimal.                 *)
ScoreRow ==
    /\ sphase = "LOOP" /\ fidx = Len(factors_weight)
    /\ row_score' = round1(score, fp_bias)
    /\ sphase' = "ROW"
    /\ UNCHANGED <<factors_weight, all_factors, fidx, score, fp_bias, prev_row_score>>
    /\ UNCHANGED <<scanVars, spc, snapshot_cache, is_tushare, snapshot, candidates,
                   rankVars, techVars, auxVars>>

(* The screener is called again for the same candidate with the same       *)
(* name-to-weight pairs in another key order.                              *)
ScoreAgain ==
    /\ sphase = "ROW" /\ prev_row_score = NoScore
    /\ \E fw \in Reorderings(factors_weight) : factors_weight' = fw
    /\ \E b \in {0, 1} : fp_bias' = b
    /\ prev_row_score' = row_score
    /\ sphase' = "LOOP" /\ fidx' = 0 /\ score' = 0 /\ row_score' = NoScore
    /\ UNCHANGED all_factors
    /\ UNCHANGED <<scanVars, spc, snapshot_cache, is_tushare, snapshot, candidates,
                   rankVars, techVars, auxVars>>

NextScore == ScoreFactor \/ ScoreRow \/ ScoreAgain

SpecScore == InitScore /\ [][NextScore]_vars

-----------------------------------------------------------------------------
(* quant_stock_screener, lines 1838-1917: the batch, the scoring loop and  *)
(* the ranking.                                                            *)

(* The number of a ticker of the large snapshot, from its last digits.     *)
TickerNo(code) == 100 * code[1][4] + 10 * code[1][5] + code[1][6]

Range(s) == {s[k] : k \in 1..Len(s)}

(* What calc_technical_factors makes of the frames get_multi_stock_daily   *)
(* returns, and calc_moneyflow_factors of the rows of the one trade date   *)
(* get_market_moneyflow returns (one row a stock: no 5-day sum).           *)
TechOf(m) == [momentum_20d |-> m, RSI_14 |-> 500]
MoneyOne == [main_net_flow |-> 120, xlarge_share |-> 24, consecutive_inflow_days |-> 1]

(* The results of the batch fetch for the requested codes.  A code is a    *)
(* key of the result only when its frame came back non-empty (lines        *)
(* 1532-1538).  For a batch of at most two codes every subset may come     *)
(* back, with equal or different factors; for a long batch the momentum    *)
(* runs with the ticker number, one pair of codes has equal factors and a  *)
(* few frames are missing.                                                 *)
DailyResults(codes) ==
    IF Len(codes) <= 2
    THEN UNION {[S -> {TechOf(0 - 955), TechOf(500)}] : S \in SUBSET Range(codes)}
    ELSE {[c \in {d \in Range(codes) : TickerNo(d) % 20 # 9} |->
             TechOf(IF TickerNo(c) % BATCH_SIZE = 8 THEN 40 * 7 - 1000
                    ELSE 40 * (TickerNo(c) % BATCH_SIZE) - 1000)],
          [c \in {d \in Range(codes) : TickerNo(d) % 25 # 9} |->
             TechOf(40 * (TickerNo(c) % BATCH_SIZE) - 1000)]}

MoneyResults(codes) ==
    {<<>>,
     [c \in {d \in Range(codes) : Len(codes) <= 2 \/ 2 * (TickerNo(d) % BATCH_SIZE) >= BATCH_SIZE}
        |-> MoneyOne]}

(* {**tech_factors, **money_factors}, line 1877                            *)
merge(t, m) == [k \in DOMAIN t \cup DOMAIN m |-> IF k \in DOMAIN m THEN m[k] ELSE t[k]]

(* Lines 1880-1906: the loop over the weight map, from key k on.           *)
RECURSIVE score_from(_, _, _)
score_from(fw, af, k) ==
    IF k > Len(fw) THEN 0 ELSE term(fw, k, af) + score_from(fw, af, k + 1)

(* The values of top_n the page's slider can pass (4_Quant.py, line 50).   *)
TopNs == {10, DEFAULT_TOP_N, 50}

(* Mutant: the batch is one code longer.                                   *)
batch_long(cands) == head(cands, BATCH_SIZE + 1)

(* candidates[:50], lines 1841 and 1848.                                   *)
batch(cands) == head(cands, BATCH_SIZE)

(* Lines 1841-1844: the daily frames of the batch and the money flow.      *)
ScreenFetch ==
    /\ spc = "FETCH_DAILY"
    /\ ts_codes' = head(batch(candidates), BATCH_SIZE)
    /\ \E dd \in DailyResults(head(batch(candidates), BATCH_SIZE)) : daily_data' = dd
    /\ \E mf \in MoneyResults(batch(candidates)) : mf_data' = mf
    /\ spc' = "SCORE"
    /\ UNCHANGED <<snapshot_cache, is_tushare, snapshot, candidates, scored, top_n, result,
                   scanVars, scoreVars, techVars, auxVars>>

(* Lines 1866-1868 and 1871-1875 with the factors left from the candidate  *)
(* before: the dict is not emptied, a candidate without data of its own    *)
(* keeps the factors of one that has.                                      *)
factors_kept(data, ts_code) ==
    IF ts_code \in DOMAIN data THEN data[ts_code]
    ELSE IF DOMAIN data = {} THEN <<>>
    ELSE data[CHOOSE c \in DOMAIN data : TRUE]

(* Lines 1866-1868 and 1871-1875: the factors of a candidate start as the  *)
(* empty dict and are computed from the data fetched for its own code.     *)
factors_of(data, ts_code) ==
    IF ts_code \in DOMAIN data THEN data[ts_code] ELSE <<>>

(* Lines 1848-1909: one candidate of the batch is scored and appended.     *)
ScreenScoreRow ==
    /\ spc = "SCORE" /\ Len(scored) < Len(batch(candidates))
    /\ LET ts_code == batch(candidates)[Len(scored) + 1]
           tech_factors == factors_of(daily_data, ts_code)
           money_factors == factors_of(mf_data, ts_code)
           af == merge(tech_factors, money_factors)
       IN  \E b \in {0, 1} :
             scored' = Append(scored,
                              [ts_code |-> ts_code,
                               all_factors |-> af,
                               score |-> round1(score_from(DefaultWeights, af, 1), b)])
    /\ UNCHANGED <<spc, snapshot_cache, is_tushare, snapshot, candidates, ts_codes,
                   daily_data, mf_data, top_n, result, scanVars, scoreVars, techVars, auxVars>>

(* Lines 1911-1917: the rows are sorted by score and cut to top_n.         *)
ScreenRank ==
    /\ spc = "SCORE" /\ Len(scored) = Len(batch(candidates))
    /\ \E n \in TopNs : \E o \in orders_desc([k \in 1..Len(scored) |-> scored[k].score]) :
         /\ top_n' = n
         /\ result' = head([k \in 1..Len(scored) |-> scored[o[k]]], n)
    /\ spc' = "RETURN"
    /\ UNCHANGED <<snapshot_cache, is_tushare, snapshot, candidates, ts_codes,
                   daily_data, mf_data, scored, scanVars, scoreVars, techVars, auxVars>>

NextScreen ==
    ScreenSnapshot \/ ScreenFilter \/ ScreenPool \/ ScreenFetch \/ ScreenScoreRow \/ ScreenRank

SpecScreen == InitScreen /\ [][NextScreen]_vars

(* The two pages that work symbol by symbol: a run is a scan of the        *)
(* pattern detector or a run of the screener.                              *)
InitSymbols == InitScan \/ InitScreen

NextSymbols == NextScan \/ NextScreen

SpecSymbols == InitSymbols /\ [][NextSymbols]_vars

-----------------------------------------------------------------------------
(* calc_technical_factors, lines 1574-1693.                                *)
(*                                                                         *)
(* A frame is a chronological sequence of bars; pct_chg is in hundredths   *)
(* of a percent, RSI_14 in tenths.  The keys of the result are written in  *)
(* Latin letters.  The value of a key that no property reads is the token  *)
(* Value: what is modelled of such a key is its presence.                  *)
Value == "value"

(* None, which line 1580 treats as a frame without bars.                   *)
NoneDf == [cols |-> {}, rows |-> <<>>]

TechColumns == {"close", "high", "low", "vol", "pct_chg"}

(* len(df)                                                                 *)
bars(df) == Len(df.rows)

(* pct_chg[-n:], zeros when the frame has no such column (line 1587).      *)
pct_tail(df, n) ==
    [k \in 1..n |-> IF "pct_chg" \in df.cols THEN df.rows[Len(df.rows) - n + k].pct_chg ELSE 0]

RECURSIVE sum_where(_, _, _)
sum_where(s, k, sign) ==
    IF k > Len(s) THEN 0
    ELSE (IF sign * s[k] > 0 THEN sign * s[k] ELSE 0) + sum_where(s, k + 1, sign)

(* Mutant: the window of the RSI is one bar longer.                        *)
rsi_window_15(df) == pct_tail(df, 15)

(* pct_chg[-14:], lines 1636-1637.                                         *)
rsi_window(df) == pct_tail(df, 14)

(* Lines 1636-1644: the values RSI_14 can take, in tenths.  14 times the   *)
(* means are the sums; 100 - 100 / (1 + g / l) is 100 * g / (g + l).       *)
rsi_14(df) ==
    LET gains == sum_where(rsi_window(df), 1, 1)
        losses == sum_where(rsi_window(df), 1, 0 - 1)
    IN  IF losses > 0 THEN RoundNearest(1000 * gains, gains + losses) ELSE {1000}

(* Lines 1683-1691: the number of rising bars at the end of the series.    *)
RECURSIVE consecutive_up(_, _)
consecutive_up(s, k) ==
    IF k = 0 \/ s[k] <= 0 THEN 0 ELSE 1 + consecutive_up(s, k - 1)

(* The last 20 closes are all equal: np.std(close[-20:]) is zero in exact  *)
(* arithmetic.                                                             *)
flat_20(df) ==
    \A k \in (Len(df.rows) - 19)..Len(df.rows) : df.rows[k].close = df.rows[Len(df.rows)].close

(* The outcomes of the test upper != lower of line 1653.  The bands are    *)
(* ma20 +- 2 * std20.  With closes that differ the width is far above the  *)
(* precision of a float.  With 20 equal closes the float mean of line 1648 *)
(* may miss the close by one unit in the last place, std20 is then that    *)
(* unit and not zero, and the bands differ; when the sum is exact they are *)
(* equal.                                                                  *)
bands_test(df) == IF flat_20(df) THEN BOOLEAN ELSE {TRUE}

(* The sum of close[-n:], closes in hundredths.                            *)
RECURSIVE close_sum(_, _)
close_sum(df, n) ==
    IF n = 0 THEN 0 ELSE df.rows[Len(df.rows) + 1 - n].close + close_sum(df, n - 1)

(* round(np.mean(close[-n:]), 2), lines 1603-1604 and 1610-1611.           *)
ma_rounded(df, n) == RoundNearest(close_sum(df, n), n)

(* Mutant: the MACD keys are computed from 26 bars on.                     *)
macd_ready_26(n) == n >= 26

(* The length test of line 1623.                                           *)
macd_ready(n) == n >= 35

(* The keys a block of the function adds when its length test passes.      *)
keys_if(cond, names) == IF cond THEN [k \in names |-> Value] ELSE <<>>

(* What the floats decide in one call: the rounded RSI and means, and the  *)
(* test of the bands.                                                      *)
tech_choices(df) ==
    IF bars(df) < 20
    THEN {[rsi |-> 0, ma5 |-> 0, ma20 |-> 0, differ |-> FALSE]}
    ELSE {[rsi |-> r, ma5 |-> m5, ma20 |-> m20, differ |-> d] :
             r \in rsi_14(df), m5 \in ma_rounded(df, 5), m20 \in ma_rounded(df, 20),
             d \in bands_test(df)}

(* Lines 1580-1693 for a frame and the choices ch of its floats.           *)
technical_factors(df, ch) ==
    IF df = NoneDf \/ bars(df) = 0 \/ bars(df) < 20 THEN <<>>
    ELSE LET n == bars(df)
             momentum == merge(keys_if(n >= 5, {"momentum_5d"}),
                         merge(keys_if(n >= 10, {"momentum_10d"}),
                         merge(keys_if(n >= 20, {"momentum_20d"}),
                               keys_if(n >= 60, {"momentum_60d"}))))
             averages == merge(IF n >= 5 THEN [k \in {"MA5", "price_MA5"} |->
                                                  IF k = "MA5" THEN ch.ma5 ELSE Value]
                               ELSE <<>>,
                         merge(keys_if(n >= 10, {"MA10"}),
                         merge(IF n >= 20 THEN [k \in {"MA20", "price_MA20"} |->
                                                   IF k = "MA20" THEN ch.ma20 ELSE Value]
                               ELSE <<>>,
                               keys_if(n >= 60, {"MA60", "price_MA60"}))))
             bullish == IF "MA5" \in DOMAIN averages /\ "MA20" \in DOMAIN averages
                        THEN [k \in {"ma_bullish"} |->
                                IF averages["MA5"] > averages["MA20"] THEN 1 ELSE 0]
                        ELSE <<>>
             macd == keys_if(macd_ready(n),
                             {"MACD_DIF", "MACD_DEA", "macd_bar", "macd_cross"})
             rsi_key == IF n >= 14 THEN [k \in {"RSI_14"} |-> ch.rsi] ELSE <<>>
             bollinger == merge(keys_if(n >= 20, {"boll_upper", "boll_lower"}),
                                keys_if(n >= 20 /\ ch.differ, {"boll_position"}))
             atr == keys_if(n >= 15, {"ATR_14", "ATR_pct"})
             volume == merge(keys_if(n >= 20, {"volume_ratio_5_20", "volume_ratio_today"}),
                             keys_if(n >= 5, {"vol_mean_5"}))
             extremes == merge(keys_if(n >= 20, {"new_high_20", "new_low_20"}),
                               keys_if(n >= 60, {"new_high_60"}))
             streak == IF n >= 2
                       THEN [k \in {"consecutive_up_days"} |->
                               consecutive_up(pct_tail(df, n), n)]
                       ELSE <<>>
         IN  merge(momentum, merge(averages, merge(bullish, merge(macd, merge(rsi_key,
             merge(bollinger, merge(atr, merge(volume, merge(extremes, streak)))))))))

(* The frames of the inputs: every length from 0 to 60 + TechExtra, with   *)
(* percent changes that are all zero, all rising, all falling, mixed,      *)
(* rising with one fall 14 or 15 bars before the end, and frames without   *)
(* the pct_chg column.  Closes are in hundredths: all equal ("zero"), all  *)
(* equal but the last, one hundredth higher ("tick"), alternating between  *)
(* two neighbouring hundredths ("half"), the last five well above or below *)
(* the others ("rally", "slide"), or running over three prices.            *)
TechExtra == 1
TechLengths == 0..(60 + TechExtra)
PctPatterns ==
    {"zero", "up", "down", "mixed", "fall_14", "fall_15", "up_zero",
     "tick", "half", "rally", "slide"}

pattern_pct(pat, back) ==
    IF pat = "zero" THEN 0
    ELSE IF pat = "up" THEN 100
    ELSE IF pat = "down" THEN 0 - 100
    ELSE IF pat = "mixed" THEN (IF back % 3 = 0 THEN 0 - 50 ELSE 150)
    ELSE IF pat = "fall_14" THEN (IF back = 14 THEN 0 - 200 ELSE 100)
    ELSE IF pat = "fall_15" THEN (IF back = 15 THEN 0 - 200 ELSE 100)
    ELSE (IF back % 2 = 0 THEN 0 ELSE 100)

pattern_close(pat, back) ==
    IF pat = "zero" THEN 1000
    ELSE IF pat = "tick" THEN (IF back = 1 THEN 1001 ELSE 1000)
    ELSE IF pat = "half" THEN 1000 + (back % 2)
    ELSE IF pat = "rally" THEN (IF back <= 5 THEN 1100 ELSE 1000)
    ELSE IF pat = "slide" THEN (IF back <= 5 THEN 900 ELSE 1000)
    ELSE 1000 + 10 * (back % 3)

TechBar(pat, back) ==
    [close |-> pattern_close(pat, back),
     high |-> 1140, low |-> 890, vol |-> 100 + (back % 2),
     pct_chg |-> pattern_pct(pat, back)]

TechFrames ==
    {NoneDf}
    \cup {[cols |-> cs, rows |-> [k \in 1..n |-> TechBar(pat, n + 1 - k)]] :
            cs \in {TechColumns, TechColumns \ {"pct_chg"}},
            n \in TechLengths, pat \in PctPatterns}

InitTech ==
    /\ scanIdle /\ screenOff /\ rankIdle /\ scoreIdle /\ auxIdle
    /\ tphase = "CALL" /\ tech_df \in TechFrames /\ factors = <<>>
    /\ bands_differ = FALSE

(* The call: the factor dict of the frame.                                 *)
CalcTechnical ==
    /\ tphase = "CALL"
    /\ \E ch \in tech_choices(tech_df) :
          /\ factors' = technical_factors(tech_df, ch)
          /\ bands_differ' = ch.differ
    /\ tphase' = "RETURN"
    /\ UNCHANGED <<tech_df, scanVars, spc, snapshot_cache, is_tushare, snapshot, candidates,
                   rankVars, scoreVars, auxVars>>

NextTech == CalcTechnical

SpecTech == InitTech /\ [][NextTech]_vars

-----------------------------------------------------------------------------
(* calc_moneyflow_factors, lines 1708-1753.                                *)
(*                                                                         *)
(* A frame is a sequence of rows, oldest first; a row carries the four     *)
(* volumes of the large and extra-large orders, whole numbers of lots.     *)

(* buy_elg_vol - sell_elg_vol + buy_lg_vol - sell_lg_vol of a row, lines   *)
(* 1717-1721, 1728-1729 and 1742-1743.                                     *)
net_main(r) == r.buy_elg_vol - r.sell_elg_vol + r.buy_lg_vol - r.sell_lg_vol

(* round(x, 0) for x given in tenths.                                      *)
round0(tenths) ==
    IF tenths >= 0 THEN RoundNearest(tenths, 10)
    ELSE {0 - v : v \in RoundNearest(0 - tenths, 10)}

(* The sum of the net flows of rows from..to.                              *)
RECURSIVE net_sum(_, _, _)
net_sum(df, from, to) ==
    IF from > to THEN 0 ELSE net_main(df[from]) + net_sum(df, from + 1, to)

(* Mutant: the count does not stop at a row without inflow.                *)
RECURSIVE inflow_days_all(_, _)
inflow_days_all(df, k) ==
    IF k = 0 THEN 0
    ELSE (IF net_main(df[k]) > 0 THEN 1 ELSE 0) + inflow_days_all(df, k - 1)

(* Lines 1740-1749: the loop from the latest row backward, from row k.     *)
RECURSIVE inflow_days(_, _)
inflow_days(df, k) ==
    IF k = 0 \/ net_main(df[k]) <= 0 THEN 0 ELSE 1 + inflow_days(df, k - 1)

(* Lines 1710-1753 for a frame and the rounded flows.                      *)
moneyflow_factors(df, flow, flow5) ==
    IF df = <<>> THEN <<>>
    ELSE merge([k \in {"main_net_flow"} |-> flow],
         merge(IF Len(df) >= 5 THEN [k \in {"main_net_flow_5d"} |-> flow5] ELSE <<>>,
         merge([k \in {"xlarge_share"} |-> Value],
               [k \in {"consecutive_inflow_days"} |-> inflow_days(df, Len(df))])))

(* The frames of the inputs: None or no row, and up to FlowBars rows, each *)
(* with an inflow, an outflow or a balance.                                *)
FlowBars == 6

FlowRows ==
    {[buy_elg_vol |-> 100, sell_elg_vol |-> 30, buy_lg_vol |-> 80, sell_lg_vol |-> 30],
     [buy_elg_vol |-> 40, sell_elg_vol |-> 40, buy_lg_vol |-> 25, sell_lg_vol |-> 25],
     [buy_elg_vol |-> 10, sell_elg_vol |-> 50, buy_lg_vol |-> 20, sell_lg_vol |-> 30]}

FlowFrames == UNION {[1..n -> FlowRows] : n \in 0..FlowBars}

InitMoney ==
    /\ scanIdle /\ screenOff /\ rankIdle /\ scoreIdle /\ techIdle /\ callIdle
    /\ mphase = "CALL" /\ mf_df \in FlowFrames /\ mf_factors = <<>>

(* The call: the factor dict of the frame.                                 *)
CalcMoneyflow ==
    /\ mphase = "CALL"
    /\ \E flow \in (IF mf_df = <<>> THEN {0} ELSE round0(10 * net_main(mf_df[Len(mf_df)]))) :
       \E flow5 \in (IF Len(mf_df) < 5 THEN {0}
                     ELSE round0(10 * net_sum(mf_df, Len(mf_df) - 4, Len(mf_df)))) :
          mf_factors' = moneyflow_factors(mf_df, flow, flow5)
    /\ mphase' = "RETURN"
    /\ UNCHANGED <<mf_df, scanVars, spc, snapshot_cache, is_tushare, snapshot, candidates,
                   rankVars, scoreVars, techVars, callVars>>

NextMoney == CalcMoneyflow

SpecMoney == InitMoney /\ [][NextMoney]_vars

(***************************************************************************)
(* _safe_call (data_fetcher.py lines 61-72) as get_market_snapshot uses it *)
(* (lines 1503-1507).  The caller submits func to an executor of one       *)
(* worker thread inside a with block and waits for the future at most      *)
(* timeout seconds.  Leaving the with block, by return or by exception,    *)
(* runs ThreadPoolExecutor.__exit__, which is shutdown(wait=True): the     *)
(* caller joins the worker thread.  Time is counted in whole seconds.      *)
(***************************************************************************)
TS_TIMEOUT == 20
AK_TIMEOUT == 15

(* What a fetch can give: None, an empty frame, a frame with rows.         *)
FetchValues == {"None", "Empty", "Frame"}

TushareCall == [label |-> "TS", timeout |-> TS_TIMEOUT, default |-> "None"]
AkshareCall == [label |-> "AK", timeout |-> AK_TIMEOUT, default |-> "Empty"]

(* Line 1504: result is not None and not result.empty.                     *)
usable(value) == value \notin {"None", "Empty"}

Running == [state |-> "RUNNING", value |-> NoValue]
Finished(v) == [state |-> "FINISHED", value |-> v]
Leaving(kind, v) == [kind |-> kind, value |-> v]

(* Lines 65-66 without the wait of __exit__: the value handed out when the *)
(* with block is left.                                                     *)
handed_out(c, p) == IF p.kind = "return" THEN p.value ELSE c.default

callRest == <<scanVars, spc, snapshot_cache, is_tushare, snapshot, candidates,
              rankVars, scoreVars, techVars, moneyVars>>

(* Line 1503: get_market_snapshot calls _safe_call for the Tushare fetch.  *)
InitSafeCall ==
    /\ scanIdle /\ screenOff /\ rankIdle /\ scoreIdle /\ techIdle /\ moneyIdle
    /\ cphase = "CALL" /\ call = TushareCall /\ future = NotSubmitted
    /\ elapsed = 0 /\ pending = NotLeaving /\ returned = NoValue

(* Line 65: executor.submit(func); the worker thread starts func.          *)
Submit ==
    /\ cphase = "CALL"
    /\ future' = Running /\ elapsed' = 0 /\ cphase' = "RESULT"
    /\ UNCHANGED <<call, pending, returned, callRest>>

(* The worker thread: func returns a value.                                *)
FuncReturn ==
    /\ future = Running
    /\ \E v \in FetchValues : future' = Finished(v)
    /\ UNCHANGED <<cphase, call, elapsed, pending, returned, callRest>>

(* The worker thread: func raises.                                         *)
FuncRaise ==
    /\ future = Running
    /\ future' = Finished("Exception")
    /\ UNCHANGED <<cphase, call, elapsed, pending, returned, callRest>>

(* Line 66: a second passes while the caller waits in future.result.       *)
Tick ==
    /\ cphase = "RESULT" /\ future = Running /\ elapsed < call.timeout
    /\ elapsed' = elapsed + 1
    /\ UNCHANGED <<cphase, call, future, pending, returned, callRest>>

(* Line 66: future.result gives the value of func; the return statement    *)
(* leaves the with block.                                                  *)
ResultReturn ==
    /\ cphase = "RESULT" /\ future.state = "FINISHED" /\ future.value \in FetchValues
    /\ pending' = Leaving("return", future.value) /\ cphase' = "SHUTDOWN"
    /\ UNCHANGED <<call, future, elapsed, returned, callRest>>

(* Line 66: future.result re-raises the exception of func.                 *)
ResultRaise ==
    /\ cphase = "RESULT" /\ future.state = "FINISHED" /\ future.value = "Exception"
    /\ pending' = Leaving("Exception", NoValue) /\ cphase' = "SHUTDOWN"
    /\ UNCHANGED <<call, future, elapsed, returned, callRest>>

(* Line 66: the timeout expires with func still running; future.result     *)
(* raises TimeoutError.                                                    *)
ResultTimeout ==
    /\ cphase = "RESULT" /\ future = Running /\ elapsed = call.timeout
    /\ pending' = Leaving("TimeoutError", NoValue) /\ cphase' = "SHUTDOWN"
    /\ UNCHANGED <<call, future, elapsed, returned, callRest>>

(* Line 64, the end of the with block: shutdown(wait=True) joins the       *)
(* worker thread, which ends when func has ended.  Then the return of line *)
(* 66 completes, or the except clause of line 67 or 70 returns default.    *)
ExitWith ==
    /\ cphase = "SHUTDOWN" /\ future.state = "FINISHED"
    /\ returned' = handed_out(call, pending) /\ cphase' = "RETURN"
    /\ UNCHANGED <<call, future, elapsed, pending, callRest>>

(* Lines 1504-1507: without a usable Tushare result get_market_snapshot    *)
(* calls _safe_call again for the AKShare fetch.                           *)
Degrade ==
    /\ cphase = "RETURN" /\ call = TushareCall /\ ~usable(returned)
    /\ call' = AkshareCall /\ cphase' = "CALL" /\ future' = NotSubmitted
    /\ elapsed' = 0 /\ pending' = NotLeaving /\ returned' = NoValue
    /\ UNCHANGED callRest

NextSafeCall ==
    \/ Submit
    \/ FuncReturn
    \/ FuncRaise
    \/ Tick
    \/ ResultReturn
    \/ ResultRaise
    \/ ResultTimeout
    \/ ExitWith
    \/ Degrade

SpecSafeCall == InitSafeCall /\ [][NextSafeCall]_vars

(* The caller's thread is scheduled and time passes; nothing makes the     *)
(* wrapped fetch end.                                                      *)
FairSafeCall ==
    /\ SpecSafeCall
    /\ WF_vars(Submit)
    /\ WF_vars(Tick)
    /\ WF_vars(ResultReturn \/ ResultRaise \/ ResultTimeout)
    /\ WF_vars(ExitWith)
    /\ WF_vars(Degrade)

-----------------------------------------------------------------------------
(* The pattern of the specification, stated on a chronological series.     *)
(* These definitions do not use the operators of the scan.                 *)

AllPresent(df) == df.cols = Columns

(* The bars of a frame in chronological order (the dates of a frame of n   *)
(* bars are 0..n-1).                                                       *)
Chrono(df) ==
    [k \in 0..(LenDF(df) - 1) |->
        df.rows[CHOOSE j \in DOMAIN df.rows : df.rows[j].trade_date = k]]

NBars(s) == Cardinality(DOMAIN s)

RECURSIVE VolSum(_, _, _)
VolSum(s, from, to) ==
    IF to < from THEN 0
    ELSE IF to = from THEN s[to].vol
    ELSE VolSum(s, (from + to) \div 2 + 1, to)
           + VolSum(s, from, (from + to) \div 2)

(* The quantities of the pattern for a chronological series s:             *)
(*   peak: the first bar, the last 5 excluded, whose high no bar of that   *)
(*         prefix exceeds (-1 when the series has fewer than 6 bars);      *)
(*   base: the first bar before the peak whose low is the lowest there     *)
(*         (-1 when no bar precedes the peak);                             *)
(*   the impulse window base..peak and the pullback window peak+1..end.    *)
PatOf(s) ==
    LET n == NBars(s)
        w == 0..(n - 6)
        pk == IF w = {} THEN -1
              ELSE CHOOSE k \in w : /\ \A j \in w : s[j].high <= s[k].high
                                    /\ \A j \in w : j < k => s[j].high < s[k].high
        v == 0..(pk - 1)
        bs == IF v = {} THEN -1
              ELSE CHOOSE k \in v : /\ \A j \in v : s[k].low <= s[j].low
                                    /\ \A j \in v : j < k => s[k].low < s[j].low
    IN  [n |-> n, peak |-> pk, base |-> bs,
         peak_price |-> IF pk >= 0 THEN s[pk].high ELSE 0,
         base_price |-> IF bs >= 0 THEN s[bs].low ELSE 0,
         close |-> IF n >= 1 THEN s[n - 1].close ELSE 0,
         imp_sum |-> IF bs >= 0 THEN VolSum(s, bs, pk) ELSE 0,
         imp_cnt |-> pk - bs + 1,
         pull_sum |-> VolSum(s, pk + 1, n - 1),
         pull_cnt |-> n - 1 - pk]

(* (a) the peak is not stale, (b) at least 5 bars precede it               *)
PatFresh(P) == P.peak >= 0 /\ P.n - P.peak <= 30
PatRoom(P) == P.peak >= 5

(* (c) (peak - base) / base against st / 100: negative below the           *)
(* threshold, 0 at the threshold                                           *)
PatSurgeCmp(P, st) == (P.peak_price - P.base_price) * 100 - st * P.base_price
PatSurge(P, st) == PatSurgeCmp(P, st) >= 0

(* (d) 0.88 * target <= close <= 1.12 * target, target = (peak + base) / 2 *)
PatBand(P) ==
    /\ 88 * (P.peak_price + P.base_price) <= 200 * P.close
    /\ 200 * P.close <= 112 * (P.peak_price + P.base_price)

PatOnBandEdge(P) ==
    \/ 88 * (P.peak_price + P.base_price) = 200 * P.close
    \/ 200 * P.close = 112 * (P.peak_price + P.base_price)

(* (e) mean(vol[peak+1..end]) / mean(vol[base..peak]) against vs / 100:    *)
(* positive above the ceiling, 0 at the ceiling                            *)
PatShrinkCmp(P, vs) ==
    P.pull_sum * P.imp_cnt * 100 - vs * P.imp_sum * P.pull_cnt

PatShrink(P, vs) == PatShrinkCmp(P, vs) <= 0

(* The conditions (a)-(e).                                                 *)
Pattern(P, st, vs) ==
    /\ PatFresh(P) /\ PatRoom(P)
    /\ PatSurge(P, st) /\ PatBand(P) /\ PatShrink(P, vs)

(* A signal carries its values at display precision: the numbers nearest   *)
(* to surge and shrink ratio in tenths of a percent, to the target in      *)
(* hundredths; the last close as it is.                                    *)
Nearest(r, num, den) == 2 * r * den - 2 * num <= den /\ 2 * num - 2 * r * den <= den

Carries(sig, P) ==
    /\ sig.current_price = P.close
    /\ Nearest(sig.surge, 1000 * (P.peak_price - P.base_price), P.base_price)
    /\ Nearest(sig.target, 100 * (P.peak_price + P.base_price), 20)
    /\ Nearest(sig.shrink, 1000 * P.pull_sum * P.imp_cnt, P.imp_sum * P.pull_cnt)

(* The pattern quantities of the frame being processed.                    *)
Cur == PatOf(Chrono(df_k))

(* The loop body of the first symbol has ended, on a frame with every      *)
(* column (df_k is that symbol's frame: REJECT and EXCEPT are also reached *)
(* with the frame of an earlier symbol, when the fetch raised).            *)
Ended == pc \in {"SIGNAL", "REJECT", "EXCEPT"} /\ i = 0 /\ AllPresent(df_k)
Emitted == pc = "SIGNAL" /\ i = 0

LastSignal == signals[Len(signals)]

-----------------------------------------------------------------------------
(* C1 as stated: every series meeting (a)-(e) ends its loop body with a    *)
(* signal carrying its surge, target, shrink ratio and last close.         *)
C1_AnyLength ==
    Ended => LET P == Cur
             IN  Pattern(P, surge_threshold, vol_shrink)
                   => (pc = "SIGNAL" /\ Len(signals) = 1 /\ Carries(LastSignal, P))

(* C1, amended: every series of at least 40 bars meeting (a)-(e), the peak *)
(* being the first bar of the largest high, ends its loop body with a      *)
(* signal carrying its last close and, at display precision, its surge,    *)
(* target and shrink ratio.                                                *)
C1_Complete ==
    (Ended /\ LenDF(df_k) >= 40)
        => LET P == Cur
           IN  Pattern(P, surge_threshold, vol_shrink)
                 => (pc = "SIGNAL" /\ Len(signals) = 1 /\ Carries(LastSignal, P))

(* The scenario of the specification has produced its signal: base 100 at  *)
(* bar 10, peak 145 at bar 40, close 122.5, target 122.50, shrink 40.0%.   *)
C1_Witness ==
    /\ Emitted /\ LenDF(df_k) = 46
    /\ LET P == Cur
       IN  /\ P.peak = 40 /\ P.base = 10
           /\ P.peak_price = 1450 /\ P.base_price = 1000
    /\ LastSignal.current_price = 1225 /\ LastSignal.target = 12250
    /\ LastSignal.surge = 450 /\ LastSignal.shrink = 400

-----------------------------------------------------------------------------
PastPeak == pc \in {"SEARCH_BASE", "CHECK_SURGE", "CHECK_RETRACEMENT", "CHECK_VOLUME", "SIGNAL"}
PastBase == pc \in {"CHECK_SURGE", "CHECK_RETRACEMENT", "CHECK_VOLUME", "SIGNAL"}
Scanned == Ended /\ LenDF(df_k) >= 40

(* C2: no signal for a series whose pullback/impulse volume ratio is above *)
(* the ceiling; a series whose ratio equals the ceiling and that passes    *)
(* the other gates gets its signal.                                        *)
C2_VolumeGate ==
    /\ Emitted => PatShrinkCmp(Cur, vol_shrink) <= 0
    /\ Scanned =>
         LET P == Cur
         IN  (/\ PatFresh(P) /\ PatRoom(P) /\ PatSurge(P, surge_threshold) /\ PatBand(P)
              /\ PatShrinkCmp(P, vol_shrink) = 0) => pc = "SIGNAL"

(* The scenario with pullback volume at 60% of the impulse volume has been *)
(* rejected, every other gate passing.                                     *)
C2_Witness ==
    /\ Scanned /\ pc = "REJECT" /\ signals = <<>>
    /\ LET P == Cur
       IN  /\ PatFresh(P) /\ PatRoom(P) /\ PatSurge(P, surge_threshold) /\ PatBand(P)
           /\ P.peak = 40 /\ P.base = 10
           /\ P.pull_sum * P.imp_cnt * 100 = 60 * P.imp_sum * P.pull_cnt

(* C3: no signal for a series whose peak lies more than 30 bars before its *)
(* end, and no later stage is entered for it; a peak exactly 30 bars       *)
(* before the end is not rejected.                                         *)
C3_StaleGate ==
    /\ PastPeak => PatFresh(Cur)
    /\ Scanned =>
         LET P == Cur
         IN  (/\ P.n - P.peak = 30 /\ PatRoom(P) /\ PatSurge(P, surge_threshold) /\ PatBand(P)
              /\ PatShrink(P, vol_shrink)) => pc = "SIGNAL"

(* A series whose peak is 35 bars before its end has been rejected, its    *)
(* surge, retracement and volume passing.                                  *)
C3_Witness ==
    /\ Scanned /\ pc = "REJECT" /\ signals = <<>>
    /\ LET P == Cur
       IN  /\ P.n - P.peak = 35 /\ PatRoom(P) /\ PatSurge(P, surge_threshold) /\ PatBand(P)
           /\ PatShrink(P, vol_shrink)

(* C4: every signal has surge >= threshold; a series whose surge equals    *)
(* the threshold and that passes the other gates gets its signal.          *)
C4_SurgeGate ==
    /\ Emitted => PatSurgeCmp(Cur, surge_threshold) >= 0
    /\ Scanned =>
         LET P == Cur
         IN  (/\ PatFresh(P) /\ PatRoom(P) /\ PatSurgeCmp(P, surge_threshold) = 0 /\ PatBand(P)
              /\ PatShrink(P, vol_shrink)) => pc = "SIGNAL"

(* A signal has been emitted for a surge of exactly 40%.                   *)
C4_Witness ==
    Emitted /\ surge_threshold = 40 /\ PatSurgeCmp(Cur, 40) = 0

(* C5: every signal has its last close within 0.88..1.12 of the target; a  *)
(* series whose last close is on either bound and that passes the other    *)
(* gates gets its signal.                                                  *)
C5_RetracementGate ==
    /\ Emitted => PatBand(Cur)
    /\ Scanned =>
         LET P == Cur
         IN  (/\ PatFresh(P) /\ PatRoom(P) /\ PatSurge(P, surge_threshold) /\ PatOnBandEdge(P)
              /\ PatShrink(P, vol_shrink)) => pc = "SIGNAL"

(* A signal has been emitted for a last close on the upper bound.          *)
C5_Witness ==
    Emitted /\ LET P == Cur IN 200 * P.close = 112 * (P.peak_price + P.base_price)

(* C6: past the base search, the base is the first lowest low among the    *)
(* bars strictly before the peak, and at least 5 bars precede the peak.    *)
C6_BaseSearch ==
    PastBase =>
        LET P == Cur
        IN  /\ base_idx = P.base /\ base_price = P.base_price
            /\ 0 <= base_idx /\ base_idx < P.peak
            /\ P.peak >= 5

(* The base has been found although a bar at or after the peak has a lower *)
(* low.                                                                    *)
C6_Witness ==
    /\ PastBase
    /\ \E j \in DOMAIN df_k.rows : j >= peak_idx /\ df_k.rows[j].low < base_price

(* C7: past the peak search, the peak is the first largest high of the     *)
(* series without its last 5 bars, so peak_idx <= length - 6.              *)
C7_PeakSearch ==
    (PastPeak \/ (Scanned /\ pc = "REJECT")) =>
        LET P == Cur
        IN  /\ peak_idx = P.peak /\ peak_price = P.peak_price
            /\ peak_idx <= LenDF(df_k) - 6

(* The peak has been found although one of the last 5 bars has a higher    *)
(* high.                                                                   *)
C7_Witness ==
    /\ PastPeak
    /\ \E j \in DOMAIN df_k.rows : j > LenDF(df_k) - 6 /\ df_k.rows[j].high > peak_price

-----------------------------------------------------------------------------
(* C8: a symbol whose fetch or computation raises adds no signal and       *)
(* leaves the collected signals as they are; the scan goes on with the     *)
(* next symbol and reaches line 193 with every symbol processed.           *)
C8_Isolation ==
    /\ [][pc' = "EXCEPT" => signals' = signals]_vars
    /\ [][/\ Len(signals') >= Len(signals)
          /\ SubSeq(signals', 1, Len(signals)) = signals]_vars
    /\ [](pc = "EXCEPT" => \A k \in 1..Len(signals) : signals[k].ts_code # i)
    /\ [][pc = "EXCEPT" => (pc' = "FETCH" /\ i' = i + 1)]_vars
    /\ [](pc = "DONE" => i = total_candidates)
    /\ <>(pc = "DONE")

(* A symbol has raised after a signal was collected, with a symbol still   *)
(* to come.                                                                *)
C8_Witness ==
    pc = "EXCEPT" /\ Len(signals) >= 1 /\ i + 1 < total_candidates

Stages == {"SEARCH_PEAK", "SEARCH_BASE", "CHECK_SURGE", "CHECK_RETRACEMENT", "CHECK_VOLUME"}
Ends == {"SIGNAL", "REJECT", "EXCEPT"}

(* C9: the detector moves forward only, stage by stage, to one end per     *)
(* symbol; an end is followed by the next symbol; a signal is appended     *)
(* only on leaving CHECK_VOLUME for SIGNAL, one per symbol at most, and    *)
(* an end without signal leaves the list as it is.  (The end of a symbol   *)
(* whose computation raised, EXCEPT, is a rejection: no signal.)           *)
C9_ForwardChain ==
    /\ [][/\ pc = "SEARCH_PEAK" => pc' \in {"SEARCH_BASE", "REJECT", "EXCEPT"}
          /\ pc = "SEARCH_BASE" => pc' \in {"CHECK_SURGE", "REJECT", "EXCEPT"}
          /\ pc = "CHECK_SURGE" => pc' \in {"CHECK_RETRACEMENT", "REJECT", "EXCEPT"}
          /\ pc = "CHECK_RETRACEMENT" => pc' \in {"CHECK_VOLUME", "REJECT", "EXCEPT"}
          /\ pc = "CHECK_VOLUME" => pc' \in {"SIGNAL", "REJECT", "EXCEPT"}
          /\ pc \in Stages => (i' = i /\ df_k' = df_k)
          /\ pc \in Ends => (pc' = "FETCH" /\ i' = i + 1)
          /\ pc' \in Stages \ {"SEARCH_PEAK"} => pc \in Stages
          /\ signals' # signals =>
                /\ pc = "CHECK_VOLUME" /\ pc' = "SIGNAL"
                /\ Len(signals') = Len(signals) + 1
                /\ SubSeq(signals', 1, Len(signals)) = signals
                /\ signals'[Len(signals')].ts_code = i
          /\ pc' = "SIGNAL" => signals' # signals
          /\ pc' \in {"REJECT", "EXCEPT"} => signals' = signals]_vars
    /\ [](\A a, b \in 1..Len(signals) : a < b => signals[a].ts_code < signals[b].ts_code)
    /\ [](\A a \in 1..Len(signals) :
            signals[a].ts_code < i \/ (signals[a].ts_code = i /\ pc = "SIGNAL"))

(* The scan has ended with a signal for the first and the third symbol and *)
(* none for the second.                                                    *)
C9_Witness ==
    /\ pc = "DONE" /\ Len(signals) = 2
    /\ signals[1].ts_code = 0 /\ signals[2].ts_code = 2

-----------------------------------------------------------------------------
(* The rows of the snapshot as get_market_snapshot returned it.            *)
CacheRows == {snapshot_cache.rows[k] : k \in 1..Len(snapshot_cache.rows)}

CandidateTickers == {candidates[k][1] : k \in 1..Len(candidates)}

(* The filter has run.                                                     *)
Filtered ==
    \/ spc \in {"POOL", "FETCH_DAILY", "RAISED"}
    \/ spc = "RETURN_EMPTY" /\ snapshot_cache.rows # <<>>

(* The three other rules of the universe filter, as the specification      *)
(* states them, on a row of a snapshot: no marker in the name, no ticker   *)
(* of the restricted segment, a turnover of 50,000,000 units at least.     *)
OtherRulesPass(r) ==
    /\ ~(\E k \in 1..Len(r.name) : r.name[k] = "TUI")
    /\ ~(\E k \in 1..(Len(r.name) - 1) : r.name[k] = "S" /\ r.name[k + 1] = "T")
    /\ r.code[1] # 8
    /\ r.amount # NaN
    /\ (IF is_tushare THEN r.amount * 1000 ELSE r.amount) >= 50000000

(* C10: with the percent change in the snapshot, an instrument at 9.8 or   *)
(* more, or at -9.8 or less, is no candidate, after the filter and after   *)
(* the pool; one at 9.79 or -9.79 that passes the other rules is a         *)
(* candidate when the filter has run; in both formats.                     *)
C10_LimitMove ==
    (Filtered /\ "pct_chg" \in snapshot_cache.cols) =>
        \A r \in CacheRows :
            /\ (r.pct # NaN /\ (r.pct >= 980 \/ r.pct <= -980))
                   => r.code \notin CandidateTickers
            /\ (/\ spc = "POOL" /\ r.pct \in {979, -979}
                /\ OtherRulesPass(r) /\ "ts_code" \in snapshot_cache.cols)
                   => r.code \in CandidateTickers

(* The filter has run on an AKShare snapshot of two instruments passing    *)
(* the other rules, one at -9.79 and one at 9.8: the first alone is a      *)
(* candidate.                                                              *)
C10_Witness ==
    /\ spc = "POOL" /\ ~is_tushare /\ Len(snapshot_cache.rows) = 2
    /\ \E r \in CacheRows : r.pct = -979 /\ OtherRulesPass(r) /\ r.code \in CandidateTickers
    /\ \E r \in CacheRows : r.pct = 980 /\ OtherRulesPass(r) /\ r.code \notin CandidateTickers
    /\ Len(candidates) = 1

-----------------------------------------------------------------------------
(* The turnover of a snapshot row in currency units: Tushare gives it in   *)
(* thousands, AKShare in units.                                            *)
TurnoverYuan(r) == IF is_tushare THEN r.amount * 1000 ELSE r.amount

(* C11: with the default floor, an instrument whose turnover is below      *)
(* 50,000,000 currency units is no candidate, and one at or above it that  *)
(* passes the other rules is a candidate when the filter has run; in both  *)
(* formats.                                                                *)
C11_TurnoverFloor ==
    (Filtered /\ "amount" \in snapshot_cache.cols) =>
        \A r \in CacheRows :
            /\ (r.amount # NaN /\ TurnoverYuan(r) < 50000000)
                   => r.code \notin CandidateTickers
            /\ (/\ spc = "POOL" /\ r.amount # NaN /\ TurnoverYuan(r) >= 50000000
                /\ ~contains_marker(r.name) /\ r.code[1] # 8
                /\ r.pct # NaN /\ r.pct < 980 /\ r.pct > -980
                /\ "ts_code" \in snapshot_cache.cols)
                   => r.code \in CandidateTickers

(* The filter has run on a Tushare snapshot and kept an instrument whose   *)
(* turnover is below 50,000,000 currency units.                            *)
C11_Witness ==
    /\ spc = "POOL" /\ is_tushare
    /\ \E r \in CacheRows :
         r.amount # NaN /\ TurnoverYuan(r) < 50000000 /\ r.code \in CandidateTickers

(* The same floor holds in the AKShare format.                             *)
C11_FallbackFloor == ~is_tushare => C11_TurnoverFloor

-----------------------------------------------------------------------------
(* The symbols the screener has fetched, scored or returned.               *)
FetchedCodes == {ts_codes[k] : k \in 1..Len(ts_codes)}
ScoredCodes == {scored[k].ts_code : k \in 1..Len(scored)}
OutputCodes == {result[k].ts_code : k \in 1..Len(result)}
Handled == FetchedCodes \cup ScoredCodes \cup OutputCodes

(* The row of the returned snapshot for a ticker.                          *)
CacheRow(c) == CHOOSE r \in CacheRows : r.code = c[1]

HasMarker(name) ==
    \/ \E k \in 1..Len(name) : name[k] = "TUI"
    \/ \E k \in 1..(Len(name) - 1) : name[k] = "S" /\ name[k + 1] = "T"

(* C12: no symbol that is fetched, scored or returned has a name with a    *)
(* special-treatment or delisting marker or a ticker beginning with 8, and *)
(* the four rules act together: such a symbol also has a turnover of       *)
(* 50,000,000 currency units at least and a percent change strictly        *)
(* between -9.8 and 9.8, whatever its turnover rank.                       *)
C12_FourRules ==
    \A c \in Handled :
        LET r == CacheRow(c)
        IN  /\ ~HasMarker(r.name)
            /\ c[1][1] # 8
            /\ r.amount # NaN /\ TurnoverYuan(r) >= 50000000
            /\ r.pct # NaN /\ r.pct < 980 /\ r.pct > -980

(* A Tushare symbol of 500,000 units of turnover has been scored and       *)
(* returned.                                                               *)
C12_Witness ==
    /\ spc = "RETURN" /\ is_tushare /\ snapshot_cache.cols = AllCols
    /\ \E c \in OutputCodes : TurnoverYuan(CacheRow(c)) = 500000

(* The name rule and the segment rule alone, on a snapshot that carries    *)
(* the names.                                                              *)
C12_NameAndSegment ==
    "name" \in snapshot_cache.cols =>
        \A c \in Handled : ~HasMarker(CacheRow(c).name) /\ c[1][1] # 8

(* The survivors of the filter and their turnovers.                        *)
SurvivorOf(c) == CHOOSE r \in {snapshot.rows[k] : k \in 1..Len(snapshot.rows)} :
                     <<r.code, r.ex>> = c

PastFetch == spc \in {"SCORE", "RETURN"}

(* C13: the symbols fetched are 50 distinct survivors of the filter, or    *)
(* all of them when there are fewer, in turnover-descending order; no      *)
(* survivor left out has a larger turnover than the last of them; the      *)
(* symbols scored are the symbols fetched, in the same order; the output   *)
(* has at most min(top_n, 50) rows.                                        *)
C13_PoolSelection ==
    PastFetch =>
        LET rows == snapshot.rows
            n == Len(ts_codes)
            pool == IF Len(rows) < 200 THEN Len(rows) ELSE 200
            turnover == [k \in 1..n |-> SurvivorOf(ts_codes[k]).amount]
        IN  /\ n = (IF pool < 50 THEN pool ELSE 50)
            /\ \A k \in 1..n : \E j \in 1..Len(rows) : <<rows[j].code, rows[j].ex>> = ts_codes[k]
            /\ Cardinality(FetchedCodes) = n
            /\ \A k \in 1..(n - 1) : turnover[k] >= turnover[k + 1]
            /\ \A j \in 1..Len(rows) :
                   <<rows[j].code, rows[j].ex>> \notin FetchedCodes =>
                       rows[j].amount <= turnover[n]
            /\ Len(scored) <= n
            /\ \A k \in 1..Len(scored) : scored[k].ts_code = ts_codes[k]
            /\ spc = "RETURN" =>
                   /\ Len(scored) = n
                   /\ Len(result) <= top_n /\ Len(result) <= 50

(* More than 200 survivors: 50 were scored and 30 returned.                *)
C13_Witness ==
    /\ spc = "RETURN" /\ Len(snapshot.rows) > 200
    /\ Len(ts_codes) = 50 /\ Len(scored) = 50
    /\ top_n = 30 /\ Len(result) = 30

-----------------------------------------------------------------------------
(* The normalization table of the specification, as 300 times the          *)
(* subscore, for a factor value v in the unit of the factor.               *)
Clamp100(x300) == IF x300 < 0 THEN 0 ELSE IF x300 > 30000 THEN 30000 ELSE x300

TableSubscore(name, v) ==
    CASE name = "momentum_20d" -> Clamp100((v + 1000) * 10)
      [] name = "volume_ratio_5_20" -> Clamp100(v * 150)
      [] name \in {"macd_cross", "ma_bullish", "new_high_20"} -> v * 30000
      [] name = "RSI_14" ->
            (CASE v >= 500 /\ v <= 800 -> 30000
               [] v >= 400 /\ v < 500 -> 18000
               [] v > 800 -> 9000
               [] OTHER -> 6000)
      [] name = "main_net_flow_5d" -> Clamp100((v + 5000) * 3)
      [] name = "consecutive_inflow_days" -> Clamp100(v * 6000)
      [] OTHER -> Clamp100(v * 300)

(* The sum over the keys 1..k of the weight map of weight x subscore; a    *)
(* key that the factors lack counts for `missing'.                         *)
RECURSIVE TableSum(_, _, _, _)
TableSum(fw, k, af, missing) ==
    IF k = 0 THEN 0
    ELSE TableSum(fw, k - 1, af, missing)
         + (IF fw[k][1] \in DOMAIN af
            THEN fw[k][2] * TableSubscore(fw[k][1], af[fw[k][1]])
            ELSE missing)

WeightNames(fw) == {fw[k][1] : k \in 1..Len(fw)}

RECURSIVE WeightTotal(_, _)
WeightTotal(fw, k) == IF k = 0 THEN 0 ELSE WeightTotal(fw, k - 1) + fw[k][2]

Stored == sphase = "ROW"

(* C14: for a candidate that has every factor of the weight map, the       *)
(* score is the sum over the map of weight x subscore of the table, and    *)
(* the stored score is a tenth nearest to it.                              *)
C14_ScoreTable ==
    (Stored /\ WeightNames(factors_weight) \subseteq DOMAIN all_factors) =>
        /\ score = TableSum(factors_weight, Len(factors_weight), all_factors, 0)
        /\ row_score \in RoundNearest(score, 3000)

(* Stored under the default map: RSI on the band edge 80, a negative net   *)
(* flow and a momentum below -10.                                          *)
C14_Witness ==
    /\ Stored /\ factors_weight = DefaultWeights
    /\ DOMAIN all_factors = WeightNames(DefaultWeights)
    /\ \/ all_factors["RSI_14"] = 800
       \/ all_factors["main_net_flow_5d"] < 0
       \/ all_factors["momentum_20d"] < 0 - 1000

(* C15: a factor of the weight map that the candidate lacks adds 0 to the  *)
(* score; the score of a candidate without factors is 0.                   *)
C15_MissingIsZero ==
    Stored =>
        /\ score = TableSum(factors_weight, Len(factors_weight), all_factors, 0)
        /\ (all_factors = <<>> => score = 0 /\ row_score = 0)

(* A candidate without factors is stored with 17.0 under the default map.  *)
C15_Witness ==
    Stored /\ all_factors = <<>> /\ factors_weight = DefaultWeights /\ row_score = 170

(* C16: the same name-to-weight pairs in another key order give the        *)
(* candidate the same stored score.                                        *)
C16_OrderInvariant ==
    (Stored /\ prev_row_score # NoScore) => row_score = prev_row_score

(* Two key orders of the default map stored different scores for the same  *)
(* candidate.                                                              *)
C16_Witness ==
    /\ Stored /\ prev_row_score # NoScore /\ row_score # prev_row_score
    /\ factors_weight = PageWeights(SliderDefaults) /\ all_factors = BaseFactors

(* The local score, before it is rounded, is the same exact sum.           *)
C16_ExactSum ==
    (Stored /\ prev_row_score # NoScore) => prev_row_score \in RoundNearest(score, 3000)

(* C17: with weights that are non-negative and sum to 1 at most, the score *)
(* is in [0, 100], during the loop and when stored.                        *)
C17_ScoreRange ==
    ((\A k \in 1..Len(factors_weight) : factors_weight[k][2] >= 0)
        /\ WeightTotal(factors_weight, Len(factors_weight)) <= 100
        /\ sphase \in {"LOOP", "ROW"})
    => /\ 0 <= score /\ score <= 100 * 30000
       /\ Stored => (0 <= row_score /\ row_score <= 1000)

(* Weights summing to 1 and every subscore at 100: the score is 100.       *)
C17_Witness ==
    /\ Stored /\ WeightTotal(factors_weight, Len(factors_weight)) = 100
    /\ row_score = 1000

(* Weights summing to more than 1: a score above 100 is stored.            *)
C17_Exceeds ==
    /\ Stored /\ WeightTotal(factors_weight, Len(factors_weight)) > 100
    /\ row_score > 1000

-----------------------------------------------------------------------------
(* The place of the j-th scored row in the score-descending order that     *)
(* keeps rows of equal score in their order of the scored list.            *)
StablePlace(j) ==
    1 + Cardinality({m \in 1..Len(scored) : scored[m].score > scored[j].score})
      + Cardinality({m \in 1..(j - 1) : scored[m].score = scored[j].score})

(* The place of a returned row in the scored list.                         *)
ScoredPlace(row) == CHOOSE j \in 1..Len(scored) : scored[j].ts_code = row.ts_code

(* C18: the output is the first top_n rows of the scored rows in score     *)
(* non-increasing order, rows of equal score in their order of the scored  *)
(* list.                                                                   *)
C18_StableRanking ==
    spc = "RETURN" =>
        /\ Len(result) = (IF top_n < Len(scored) THEN top_n ELSE Len(scored))
        /\ \A j \in 1..Len(scored) :
               StablePlace(j) <= Len(result) => result[StablePlace(j)] = scored[j]

(* Two returned rows of equal score stand in the reverse of their order in *)
(* the scored list.                                                        *)
C18_Witness ==
    /\ spc = "RETURN" /\ Len(scored) = 50
    /\ \E k, m \in 1..Len(result) :
         /\ k < m /\ result[k].score = result[m].score
         /\ ScoredPlace(result[k]) > ScoredPlace(result[m])

(* The part of the ranking that does not depend on the order of equal      *)
(* scores: the output is non-increasing in score, has min(top_n, scored)   *)
(* distinct scored rows, and no row left out has a larger score than the   *)
(* last row of the output.                                                 *)
C18_Descending ==
    spc = "RETURN" =>
        /\ Len(result) = (IF top_n < Len(scored) THEN top_n ELSE Len(scored))
        /\ \A k \in 1..(Len(result) - 1) : result[k].score >= result[k + 1].score
        /\ \A k \in 1..Len(result) : \E j \in 1..Len(scored) : scored[j] = result[k]
        /\ Cardinality(OutputCodes) = Len(result)
        /\ \A j \in 1..Len(scored) :
               scored[j].ts_code \notin OutputCodes =>
                   scored[j].score <= result[Len(result)].score

-----------------------------------------------------------------------------
(* The window of each indicator of the technical FactorSet, by key.        *)
IndicatorWindow ==
    [momentum_5d |-> 5, momentum_10d |-> 10, momentum_20d |-> 20, momentum_60d |-> 60,
     MA5 |-> 5, MA10 |-> 10, MA20 |-> 20, MA60 |-> 60,
     RSI_14 |-> 14, boll_upper |-> 20, boll_lower |-> 20, boll_position |-> 20,
     ATR_14 |-> 14, volume_ratio_5_20 |-> 20, volume_ratio_today |-> 20,
     new_high_20 |-> 20, new_low_20 |-> 20, new_high_60 |-> 60]

Returned == tphase = "RETURN"

SeriesLength == Len(tech_df.rows)

(* C19: when calc_technical_factors has returned for a series of fewer     *)
(* than W + 1 bars, no key of an indicator of window W is in the result.   *)
C19_ShortHistory ==
    Returned =>
        \A key \in DOMAIN IndicatorWindow :
            SeriesLength < IndicatorWindow[key] + 1 => key \notin DOMAIN factors

(* A series of exactly 20 bars has the 20-bar momentum, mean, bands,       *)
(* volume ratio and breakout flag.                                         *)
C19_Witness ==
    /\ Returned /\ SeriesLength = 20
    /\ {"momentum_20d", "MA20", "boll_upper", "volume_ratio_5_20", "new_high_20"}
           \subseteq DOMAIN factors

(* The same with W bars for W + 1: a series of fewer than W bars has no    *)
(* key of an indicator of window W, and one of fewer than 20 bars no key   *)
(* at all.                                                                 *)
C19_BelowWindow ==
    Returned =>
        /\ \A key \in DOMAIN IndicatorWindow :
               SeriesLength < IndicatorWindow[key] => key \notin DOMAIN factors
        /\ SeriesLength < 20 => DOMAIN factors = {}

(* The last 14 percent changes of the series (zero without the column).    *)
Last14 ==
    {IF "pct_chg" \in tech_df.cols THEN tech_df.rows[k].pct_chg ELSE 0 :
        k \in (SeriesLength - 13)..SeriesLength}

(* C20: when RSI_14 is in the result and none of the last 14 percent       *)
(* changes is negative, RSI_14 is exactly 100.                             *)
C20_NoLossIsHundred ==
    (Returned /\ "RSI_14" \in DOMAIN factors /\ \A c \in Last14 : c >= 0)
        => factors["RSI_14"] = 1000

(* RSI_14 is 100 for a series whose last 14 changes are all zero.          *)
C20_Witness ==
    /\ Returned /\ "RSI_14" \in DOMAIN factors /\ factors["RSI_14"] = 1000
    /\ "pct_chg" \in tech_df.cols /\ Last14 = {0}

(* RSI_14 is 100 for rising changes after a fall 15 bars before the end.   *)
C20_OldFall ==
    /\ Returned /\ "RSI_14" \in DOMAIN factors /\ factors["RSI_14"] = 1000
    /\ "pct_chg" \in tech_df.cols /\ Last14 = {100}
    /\ SeriesLength >= 15 /\ tech_df.rows[SeriesLength - 14].pct_chg < 0

-----------------------------------------------------------------------------
(* C27: a signal emitted under a surge threshold of 40% or more has its    *)
(* last close strictly between the base price and the peak price, and its  *)
(* retracement target (in hundredths) strictly between them too.           *)
C27_InsideRally ==
    (Emitted /\ surge_threshold >= 40) =>
        /\ base_price < current_price /\ current_price < peak_price
        /\ base_price < LastSignal.current_price /\ LastSignal.current_price < peak_price
        /\ 10 * base_price < LastSignal.target /\ LastSignal.target < 10 * peak_price
        /\ LET P == Cur
           IN  P.base_price < P.close /\ P.close < P.peak_price

(* A signal for a surge of exactly 40% (base 100, peak 140) with the last  *)
(* close on the upper edge of the band, 134.4.                             *)
C27_Witness ==
    /\ Emitted /\ surge_threshold = 40
    /\ base_price = 1000 /\ peak_price = 1400 /\ current_price = 1344
    /\ LastSignal.target = 12000

(* C28: when the shrink ratio is computed,                                 *)
(* 0 <= base_idx < peak_idx <= length - 6: the impulse window has 2 bars   *)
(* at least, the pullback window 5 at least and 29 at most.                *)
C28_Windows ==
    (pc = "CHECK_VOLUME" /\ "vol" \in df_k.cols) =>
        LET n == LenDF(df_k)
        IN  /\ 0 <= base_idx /\ base_idx < peak_idx /\ peak_idx <= n - 6
            /\ Cardinality(base_idx..peak_idx) >= 2
            /\ Cardinality((peak_idx + 1)..(n - 1)) >= 5
            /\ Cardinality((peak_idx + 1)..(n - 1)) <= 29

(* The shrink ratio is computed with the peak at the last eligible bar and *)
(* the base just before it: windows of 2 and of 5 bars.                    *)
C28_Witness ==
    /\ pc = "CHECK_VOLUME" /\ "vol" \in df_k.cols
    /\ peak_idx = LenDF(df_k) - 6 /\ base_idx = peak_idx - 1

(* The pullback window at its longest: 29 bars.                            *)
C28_LongPullback ==
    /\ pc = "CHECK_VOLUME" /\ "vol" \in df_k.cols
    /\ peak_idx = LenDF(df_k) - 30

(* C29: a series of fewer than 40 bars gives no signal; a series of 40     *)
(* bars or more whose peak passes the stale gate has 10 bars at least      *)
(* before its peak, and the base-window gate does not reject it.           *)
C29_BaseGateIdle ==
    /\ (Ended /\ LenDF(df_k) < 40) => (pc # "SIGNAL" /\ signals = <<>>)
    /\ pc = "SEARCH_BASE" =>
           /\ peak_idx >= 10
           /\ Cardinality(0..(peak_idx - 1)) >= 5
    /\ (Scanned /\ PatFresh(Cur)) => (Cur.peak >= 10 /\ PatRoom(Cur))

(* A series of 40 bars with its peak 30 bars before the end has reached    *)
(* the base search: exactly 10 bars precede the peak.                      *)
C29_Witness ==
    /\ pc = "SEARCH_BASE" /\ LenDF(df_k) = 40 /\ peak_idx = 10

(* A series of 39 bars with the pattern of a passing one was rejected.     *)
C29_ShortRejected ==
    /\ Ended /\ LenDF(df_k) = 39 /\ pc = "REJECT" /\ AllPresent(df_k)

-----------------------------------------------------------------------------
(* The sum of the last n closes of the series, in hundredths.              *)
RECURSIVE TailCloses(_)
TailCloses(n) ==
    IF n = 0 THEN 0 ELSE tech_df.rows[SeriesLength + 1 - n].close + TailCloses(n - 1)

(* The 5-bar mean close is strictly greater than the 20-bar mean close.    *)
Mean5Above20 == 20 * TailCloses(5) > 5 * TailCloses(20)

(* C26: for a series of 20 bars or more, the bullish-alignment flag is 1   *)
(* if and only if the 5-bar mean close is strictly greater than the 20-bar *)
(* mean close.                                                             *)
C26_BullishIffMeans ==
    (Returned /\ SeriesLength >= 20) =>
        /\ "ma_bullish" \in DOMAIN factors
        /\ factors["ma_bullish"] = 1 <=> Mean5Above20

(* The flag is 0 for a series whose 5-bar mean, 10.002, is above its       *)
(* 20-bar mean, 10.0005: both are reported as 10.00.                       *)
C26_Witness ==
    /\ Returned /\ SeriesLength = 20
    /\ TailCloses(5) = 5001 /\ TailCloses(20) = 20001
    /\ factors["MA5"] = 1000 /\ factors["MA20"] = 1000
    /\ factors["ma_bullish"] = 0

(* One direction holds: a flag of 1 is never given to a series whose       *)
(* 5-bar mean is not above its 20-bar mean; and the flag compares the      *)
(* reported means.                                                         *)
C26_FlagImpliesAbove ==
    (Returned /\ SeriesLength >= 20) =>
        /\ factors["ma_bullish"] = 1 => Mean5Above20
        /\ factors["ma_bullish"] = 1 <=> factors["MA5"] > factors["MA20"]

(* The keys of the technical FactorSet that a series of n bars has         *)
(* whatever its values.                                                    *)
KeysOfLength(n) ==
    IF n < 20 THEN {}
    ELSE {"momentum_5d", "momentum_10d", "momentum_20d", "MA5", "MA10", "MA20",
          "price_MA5", "price_MA20", "ma_bullish", "RSI_14", "ATR_14", "ATR_pct",
          "boll_upper", "boll_lower", "volume_ratio_5_20", "volume_ratio_today",
          "vol_mean_5", "new_high_20", "new_low_20", "consecutive_up_days"}
         \cup (IF n >= 35 THEN {"MACD_DIF", "MACD_DEA", "macd_bar", "macd_cross"} ELSE {})
         \cup (IF n >= 60 THEN {"momentum_60d", "MA60", "price_MA60", "new_high_60"} ELSE {})

(* C30: the keys of the result are those of the length of the series: none *)
(* below 20 bars; from 20 bars on the 5-, 10- and 20-bar momentum and mean *)
(* keys, RSI_14, ATR_14, the bands, the volume ratios and the 20-bar       *)
(* flags; the MACD keys from 35 bars on and the 60-bar keys from 60 on;    *)
(* and the Bollinger position, present exactly when the upper band         *)
(* differs from the lower band.                                            *)
C30_KeysByLength ==
    Returned =>
        /\ DOMAIN factors \ {"boll_position"} = KeysOfLength(SeriesLength)
        /\ "boll_position" \in DOMAIN factors <=> (SeriesLength >= 20 /\ bands_differ)

(* A series of 35 bars has the MACD keys and no key of the 60-bar          *)
(* indicators; its closes are all equal, its bands are equal and it has no *)
(* Bollinger position.                                                     *)
C30_Witness ==
    /\ Returned /\ SeriesLength = 35
    /\ "macd_cross" \in DOMAIN factors /\ "momentum_60d" \notin DOMAIN factors
    /\ ~bands_differ /\ "boll_position" \notin DOMAIN factors

(* A series of equal closes whose float bands differ has the position.     *)
C30_FlatWithPosition ==
    /\ Returned /\ SeriesLength >= 20
    /\ \A k \in 1..SeriesLength : tech_df.rows[k].close = 1000
    /\ bands_differ /\ "boll_position" \in DOMAIN factors

-----------------------------------------------------------------------------
(* The main net flow of row k of the moneyflow series.                     *)
FlowOf(k) ==
    (mf_df[k].buy_elg_vol - mf_df[k].sell_elg_vol)
        + (mf_df[k].buy_lg_vol - mf_df[k].sell_lg_vol)

FlowLength == Len(mf_df)

RECURSIVE FlowSum(_, _)
FlowSum(from, to) == IF from > to THEN 0 ELSE FlowSum(from, to - 1) + FlowOf(to)

MoneyReturned == mphase = "RETURN"

(* C21: for a moneyflow series that is not empty, the result has           *)
(* main_net_flow_5d: the sum of the main net flow over all bars when there *)
(* are fewer than 5, over the last 5 bars otherwise.                       *)
C21_FlowOverAvailable ==
    (MoneyReturned /\ FlowLength >= 1) =>
        /\ "main_net_flow_5d" \in DOMAIN mf_factors
        /\ mf_factors["main_net_flow_5d"]
               = FlowSum(IF FlowLength < 5 THEN 1 ELSE FlowLength - 4, FlowLength)

(* A series of one bar with an inflow of 120 has no main_net_flow_5d.      *)
C21_Witness ==
    /\ MoneyReturned /\ FlowLength = 1 /\ FlowOf(1) = 120
    /\ "main_net_flow_5d" \notin DOMAIN mf_factors
    /\ mf_factors["main_net_flow"] = 120

(* With 5 bars or more the key is the sum over the last 5 bars.            *)
C21_FiveOrMore ==
    (MoneyReturned /\ FlowLength >= 5) =>
        /\ "main_net_flow_5d" \in DOMAIN mf_factors
        /\ mf_factors["main_net_flow_5d"] = FlowSum(FlowLength - 4, FlowLength)

(* The bars from k to the latest all have a main net flow above zero.      *)
InflowSuffix(k) == \A j \in k..FlowLength : FlowOf(j) > 0

(* C22: consecutive_inflow_days is the length of the longest suffix of the *)
(* series whose bars all have a main net flow above zero: 0 when the       *)
(* latest bar has none, the length of the series when every bar has one.   *)
C22_InflowSuffix ==
    (MoneyReturned /\ FlowLength >= 1) =>
        LET d == mf_factors["consecutive_inflow_days"]
        IN  /\ d \in 0..FlowLength
            /\ InflowSuffix(FlowLength - d + 1)
            /\ d < FlowLength => FlowOf(FlowLength - d) <= 0
            /\ FlowOf(FlowLength) <= 0 => d = 0
            /\ InflowSuffix(1) => d = FlowLength

(* Two inflow bars at the end of a series, after an outflow bar that has   *)
(* inflow bars before it: the count is 2.                                  *)
C22_Witness ==
    /\ MoneyReturned /\ FlowLength = 5
    /\ FlowOf(1) > 0 /\ FlowOf(2) > 0 /\ FlowOf(3) < 0 /\ FlowOf(4) > 0 /\ FlowOf(5) > 0
    /\ mf_factors["consecutive_inflow_days"] = 2


(* ---- Candidates without a price history ---- *)

(* The candidates of the batch for which get_multi_stock_daily returned no *)
(* frame: the fetch raised, timed out or gave an empty series.             *)
Unfetched == FetchedCodes \ DOMAIN daily_data

(* C23: a candidate whose price-history fetch failed, timed out or         *)
(* returned an empty series is dropped, it does not appear in the ranked   *)
(* output of the screener.                                                 *)
C23_FailedDropped ==
    spc = "RETURN" => OutputCodes \cap Unfetched = {}

(* The screener has returned a ranked output with a row for a candidate    *)
(* that has no price history, next to a row for one that has.              *)
C23_Witness ==
    /\ spc = "RETURN"
    /\ OutputCodes \cap Unfetched # {}
    /\ OutputCodes \cap DOMAIN daily_data # {}

(* The price histories are fetched in one step of the screener and are not *)
(* fetched again: once past the fetch, daily_data keeps its value.         *)
C23_FetchedOnce ==
    [][PastFetch => daily_data' = daily_data]_vars



(* ---- _safe_call ---- *)

(* The wait in future.result ended by TimeoutError.                        *)
TimedOut == pending.kind = "TimeoutError"

(* C24: when the wrapped fetch has not finished at the timeout, the caller *)
(* of _safe_call gets control back, whether or not the fetch ever          *)
(* finishes.                                                               *)
C24_TimeoutReturnsControl ==
    TimedOut ~> cphase = "RETURN"

(* The timeout has expired and the caller is held in the with block by a   *)
(* fetch that is still running.                                            *)
C24_Witness ==
    /\ TimedOut /\ cphase = "SHUTDOWN" /\ future = Running
    /\ elapsed = call.timeout

(* When the fetch raised or the timeout expired, the value _safe_call      *)
(* returns is the default of the call.                                     *)
C24_DefaultOnFailure ==
    cphase = "RETURN" /\ pending.kind \in {"TimeoutError", "Exception"}
        => returned = call.default

(* _safe_call has returned only when the wrapped fetch has ended.          *)
C24_ReturnsAfterFetch ==
    cphase = "RETURN" => future.state = "FINISHED"

(* _safe_call has returned the default after a timeout.                    *)
C24_TimeoutDefault ==
    cphase = "RETURN" /\ TimedOut /\ returned = call.default



(* ---- Per-symbol independence ---- *)

(* The factors and the score that the data fetched for code c alone give,  *)
(* under the default weights.                                              *)
OwnFactors(c) ==
    merge(IF c \in DOMAIN daily_data THEN daily_data[c] ELSE <<>>,
          IF c \in DOMAIN mf_data THEN mf_data[c] ELSE <<>>)
OwnScores(c) == {round1(score_from(DefaultWeights, OwnFactors(c), 1), b) : b \in {0, 1}}

(* The loop body of symbol i has ended on a frame of its own.              *)
EndedOwn == pc \in {"SIGNAL", "REJECT"} /\ df_k # NoFrame /\ AllPresent(df_k)
SignalsOf(sym) == {k \in 1..Len(signals) : signals[k].ts_code = sym}

(* Every scored row carries the factors and the score of its own code.     *)
OwnRow ==
    \A k \in 1..Len(scored) :
        /\ scored[k].all_factors = OwnFactors(scored[k].ts_code)
        /\ scored[k].score \in OwnScores(scored[k].ts_code)

(* The detector's outcome for the symbol in hand is the outcome of its own *)
(* frame under the sliders, whatever the symbols before it were.           *)
OwnOutcome ==
    /\ pc \in Ends => (SignalsOf(i) # {} <=> pc = "SIGNAL")
    /\ pc \in Ends => Cardinality(SignalsOf(i)) <= 1
    /\ EndedOwn =>
         /\ pc = "SIGNAL" <=> (LenDF(df_k) >= MIN_BARS /\ Pattern(Cur, surge_threshold, vol_shrink))
         /\ pc = "SIGNAL" => (LastSignal.ts_code = i /\ Carries(LastSignal, Cur))

(* C25: the factor set and score of a scored symbol, and the detector's    *)
(* outcome for a symbol, are those its own series gives under the          *)
(* parameters; the series of the other symbols do not enter, a finished    *)
(* symbol's result is not touched again, and the fetched series are left   *)
(* as they were.                                                           *)
C25_Independence ==
    /\ [](OwnRow /\ OwnOutcome)
    /\ [][/\ Len(scored') >= Len(scored)
          /\ SubSeq(scored', 1, Len(scored)) = scored]_vars
    /\ [][(pc \in Stages) => (df_k' = df_k)]_vars
    /\ [][PastFetch => (daily_data' = daily_data /\ mf_data' = mf_data)]_vars

(* A scan in which the third symbol gets a signal after one symbol with a  *)
(* signal and one without.                                                 *)
C25_Witness ==
    /\ pc = "SIGNAL" /\ i = 2 /\ EndedOwn
    /\ Cardinality({signals[k].ts_code : k \in 1..Len(signals)}) = 2

(* A screener run in which a candidate without data of its own is scored   *)
(* next to candidates with technical and moneyflow data.                   *)
C25_MixedBatch ==
    /\ spc = "RETURN"
    /\ \E k \in 1..Len(scored) : scored[k].all_factors = <<>>
    /\ \E k \in 1..Len(scored) : "main_net_flow" \in DOMAIN scored[k].all_factors
    /\ \E k \in 1..Len(scored) : "momentum_20d" \in DOMAIN scored[k].all_factors


====
